---------------------------- MODULE Spec2Model ----------------------------
(***************************************************************************)
(* Model of the DA price-index parser (src/main.py).                      *)
(*                                                                         *)
(* Text is modelled character by character: a Python str is a TLA+ string,*)
(* indexed with SubSeq and joined with \o.  Every regular expression of    *)
(* the source is transcribed as a syntax tree and run by a backtracking    *)
(* matcher (Ends) that yields the possible matches in the priority order   *)
(* of Python's re module, so the first one is the match Python reports.    *)
(***************************************************************************)
EXTENDS Integers, Sequences, FiniteSets, TLC

(***************************************************************************)
(* Characters and str methods                                              *)
(***************************************************************************)
LowerAlpha == "abcdefghijklmnopqrstuvwxyz"
UpperAlpha == "ABCDEFGHIJKLMNOPQRSTUVWXYZ"
DigitChars == {"0", "1", "2", "3", "4", "5", "6", "7", "8", "9"}

\* The character at (1-based) position k of s.
Ch(s, k) == SubSeq(s, k, k)

\* The characters of a string, as a set.
CharsOf(s) == {Ch(s, k) : k \in 1..Len(s)}

LowerChars == CharsOf(LowerAlpha)
UpperChars == CharsOf(UpperAlpha)

\* \w of the re module (ASCII part): letters, digits, underscore.
WordChars == LowerChars \cup UpperChars \cup DigitChars \cup {"_"}

\* ASCII DEL (0x7F): a control character that is not whitespace.
DEL == ""

\* Characters str.isspace() holds of, and \s matches (those the model's
\* texts can hold).
Whitespace == {" ", "\t", "\n", "\r", "\f"}

\* [\x00-\x1F\x7F-\x9F] (those the model's texts can hold).
ControlChars == {"\t", "\n", "\r", "\f", DEL}

\* str.upper() of one character.
UpperOfLower ==
    [c \in LowerChars |-> Ch(UpperAlpha, CHOOSE k \in 1..26 : Ch(LowerAlpha, k) = c)]

UpperChar(c) == IF c \in LowerChars THEN UpperOfLower[c] ELSE c

\* str.upper()
RECURSIVE Upper(_)
Upper(s) ==
    IF s = "" THEN ""
    ELSE UpperChar(Ch(s, 1)) \o Upper(SubSeq(s, 2, Len(s)))

\* `t in s` for strings.
Contains(s, t) ==
    \E k \in 1..(Len(s) - Len(t) + 1) : SubSeq(s, k, k + Len(t) - 1) = t

\* str.strip(chars): drop leading and trailing characters of the set.
StripChars(s, cs) ==
    LET keep == {k \in 1..Len(s) : Ch(s, k) \notin cs}
    IN  IF keep = {} THEN ""
        ELSE SubSeq(s, CHOOSE a \in keep : \A b \in keep : a <= b,
                       CHOOSE a \in keep : \A b \in keep : a >= b)

\* str.strip()
Strip(s) == StripChars(s, Whitespace)

\* " ".join(s.split()): whitespace runs collapsed to one space, ends trimmed.
RECURSIVE JoinSplitFrom(_, _, _)
JoinSplitFrom(s, k, pending) ==
    IF k > Len(s) THEN ""
    ELSE IF Ch(s, k) \in Whitespace THEN JoinSplitFrom(s, k + 1, TRUE)
    ELSE (IF pending THEN " " ELSE "") \o Ch(s, k) \o JoinSplitFrom(s, k + 1, FALSE)

JoinSplit(s) ==
    LET t == Strip(s) IN JoinSplitFrom(t, 1, FALSE)

\* sep.join(parts)
RECURSIVE Join(_, _)
Join(parts, sep) ==
    IF parts = <<>> THEN ""
    ELSE IF Len(parts) = 1 THEN parts[1]
    ELSE parts[1] \o sep \o Join(Tail(parts), sep)

\* s.replace(old, "") for a non-empty old.
RECURSIVE RemoveAll(_, _)
RemoveAll(s, old) ==
    IF Len(s) < Len(old) THEN s
    ELSE IF SubSeq(s, 1, Len(old)) = old
         THEN RemoveAll(SubSeq(s, Len(old) + 1, Len(s)), old)
         ELSE Ch(s, 1) \o RemoveAll(SubSeq(s, 2, Len(s)), old)

(***************************************************************************)
(* Regular expressions (the re module)                                     *)
(*                                                                         *)
(* A pattern is a tree of records; a match state is [p, gs, ge]: the next  *)
(* position to read and the span of capturing group 1 (0 when unset).      *)
(***************************************************************************)
Lit(s)       == [t |-> "lit", s |-> s]
Cls(cs)      == [t |-> "cls", cs |-> cs]
AnyChar      == [t |-> "any"]
Cat(rs)      == [t |-> "cat", rs |-> rs]
Alt(rs)      == [t |-> "alt", rs |-> rs]
Opt(r)       == [t |-> "opt", r |-> r]
Star(r)      == [t |-> "star", r |-> r]
LazyStar(r)  == [t |-> "lazystar", r |-> r]
Plus(r)      == Cat(<<r, Star(r)>>)
LazyPlus(r)  == Cat(<<r, LazyStar(r)>>)
Rep2(r)      == Cat(<<r, r>>)
Rep3(r)      == Cat(<<r, r, r>>)
Rep13(r)     == Cat(<<r, Opt(Cat(<<r, Opt(r)>>))>>)
Grp(r)       == [t |-> "grp", r |-> r]
WordBoundary == [t |-> "wb"]
EndOfText    == [t |-> "end"]
Digit        == Cls(DigitChars)
Space        == Cls(Whitespace)

RECURSIVE Flatten(_)
Flatten(ss) == IF ss = <<>> THEN <<>> ELSE Head(ss) \o Flatten(Tail(ss))

IsWordAt(s, k) == k >= 1 /\ k <= Len(s) /\ Ch(s, k) \in WordChars

\* The match states the pattern r can end in when started in state st on
\* text s, in the order Python's backtracking tries them.  ic is
\* re.IGNORECASE.
RECURSIVE Ends(_, _, _, _)
RECURSIVE EndsCat(_, _, _, _, _)
RECURSIVE EndsAlt(_, _, _, _, _)
RECURSIVE EndsStar(_, _, _, _, _)
Ends(r, s, st, ic) ==
    CASE r.t = "lit" ->
           LET e == st.p + Len(r.s) - 1
               sub == SubSeq(s, st.p, e)
           IN  IF e <= Len(s)
                  /\ (IF ic
                      THEN /\ UpperChar(Ch(s, st.p)) = UpperChar(Ch(r.s, 1))
                           /\ Upper(sub) = Upper(r.s)
                      ELSE sub = r.s)
               THEN <<[st EXCEPT !.p = e + 1]>>
               ELSE <<>>
      [] r.t = "cls" ->
           IF st.p <= Len(s) /\ Ch(s, st.p) \in r.cs
           THEN <<[st EXCEPT !.p = st.p + 1]>>
           ELSE <<>>
      [] r.t = "any" ->
           IF st.p <= Len(s) THEN <<[st EXCEPT !.p = st.p + 1]>> ELSE <<>>
      [] r.t = "cat" -> EndsCat(r.rs, 1, s, st, ic)
      [] r.t = "alt" -> EndsAlt(r.rs, 1, s, st, ic)
      [] r.t = "opt" -> Ends(r.r, s, st, ic) \o <<st>>
      [] r.t = "star" -> EndsStar(r.r, TRUE, s, st, ic)
      [] r.t = "lazystar" -> EndsStar(r.r, FALSE, s, st, ic)
      [] r.t = "grp" ->
           LET inner == Ends(r.r, s, st, ic)
           IN  [k \in 1..Len(inner) |->
                   [inner[k] EXCEPT !.gs = st.p, !.ge = inner[k].p]]
      [] r.t = "wb" ->
           IF IsWordAt(s, st.p - 1) # IsWordAt(s, st.p) THEN <<st>> ELSE <<>>
      [] r.t = "end" ->
           IF st.p = Len(s) + 1 THEN <<st>> ELSE <<>>

EndsCat(rs, k, s, st, ic) ==
    IF k > Len(rs) THEN <<st>>
    ELSE LET first == Ends(rs[k], s, st, ic)
         IN  Flatten([j \in 1..Len(first) |-> EndsCat(rs, k + 1, s, first[j], ic)])

EndsAlt(rs, k, s, st, ic) ==
    IF k > Len(rs) THEN <<>>
    ELSE Ends(rs[k], s, st, ic) \o EndsAlt(rs, k + 1, s, st, ic)

\* The repetition of a pattern of one character (a class, or any
\* character) ends anywhere in the run of such characters that starts at
\* st.p: the longest first when greedy, the shortest first when lazy.
RECURSIVE RunEnd(_, _, _)
RunEnd(cs, s, q) ==
    IF q <= Len(s) /\ Ch(s, q) \in cs THEN RunEnd(cs, s, q + 1) ELSE q

EndsRunTo(last, greedy, st) ==
    [k \in 1..(last - st.p + 1) |->
        [st EXCEPT !.p = IF greedy THEN last - k + 1 ELSE st.p + k - 1]]

EndsRun(r, greedy, s, st) ==
    EndsRunTo(IF r.t = "any" THEN Len(s) + 1 ELSE RunEnd(r.cs, s, st.p), greedy, st)

EndsStar(r, greedy, s, st, ic) ==
    IF r.t \in {"cls", "any"} THEN EndsRun(r, greedy, s, st)
    ELSE LET once == SelectSeq(Ends(r, s, st, ic), LAMBDA e : e.p > st.p)
             more == Flatten([j \in 1..Len(once) |->
                                 EndsStar(r, greedy, s, once[j], ic)])
         IN  IF greedy THEN more \o <<st>> ELSE <<st>> \o more

StartAt(p) == [p |-> p, gs |-> 0, ge |-> 0]

\* re.search: the match at the leftmost start, or found = FALSE.
\* SearchAt: e is the match states of r started at position p.
RECURSIVE SearchFrom(_, _, _, _)
RECURSIVE SearchAt(_, _, _, _, _)
SearchFrom(r, s, p, ic) ==
    IF p > Len(s) + 1 THEN [found |-> FALSE]
    ELSE SearchAt(Ends(r, s, StartAt(p), ic), r, s, p, ic)

SearchAt(e, r, s, p, ic) ==
    IF e # <<>>
    THEN [found |-> TRUE, start |-> p, end |-> e[1].p,
          group1 |-> SubSeq(s, e[1].gs, e[1].ge - 1)]
    ELSE SearchFrom(r, s, p + 1, ic)

Search(r, s, ic) == SearchFrom(r, s, 1, ic)

\* re.sub(r, repl, s): every non-overlapping match, left to right, replaced.
\* SubAt: e is the match states of r started at position p.
RECURSIVE SubFrom(_, _, _, _, _)
RECURSIVE SubAt(_, _, _, _, _, _)
SubFrom(r, repl, s, p, ic) ==
    IF p > Len(s) THEN ""
    ELSE SubAt(Ends(r, s, StartAt(p), ic), r, repl, s, p, ic)

SubAt(e, r, repl, s, p, ic) ==
    IF e # <<>> /\ e[1].p > p
    THEN repl \o SubFrom(r, repl, s, e[1].p, ic)
    ELSE Ch(s, p) \o SubFrom(r, repl, s, p + 1, ic)

Sub(r, repl, s, ic) == SubFrom(r, repl, s, 1, ic)

\* re.split(r, s) for a pattern without groups: the pieces between the
\* non-overlapping matches, left to right.  `from` is where the current
\* piece starts; SplitAt: e is the match states of r started at position p.
RECURSIVE SplitFrom(_, _, _, _, _)
RECURSIVE SplitAt(_, _, _, _, _, _)
SplitFrom(r, s, p, from, ic) ==
    IF p > Len(s) THEN <<SubSeq(s, from, Len(s))>>
    ELSE SplitAt(Ends(r, s, StartAt(p), ic), r, s, p, from, ic)

SplitAt(e, r, s, p, from, ic) ==
    IF e # <<>> /\ e[1].p > p
    THEN <<SubSeq(s, from, p - 1)>> \o SplitFrom(r, s, e[1].p, e[1].p, ic)
    ELSE SplitFrom(r, s, p + 1, from, ic)

Split(r, s, ic) == SplitFrom(r, s, 1, 1, ic)

(***************************************************************************)
(* CATEGORY DEFINITIONS                                                    *)
(***************************************************************************)
KNOWN_CATEGORIES ==
    << "IMPORTED COMMERCIAL RICE", "LOCAL COMMERCIAL RICE", "CORN PRODUCTS",
       "FISH PRODUCTS", "BEEF MEAT PRODUCTS", "PORK MEAT PRODUCTS",
       "OTHER LIVESTOCK MEAT PRODUCTS", "POULTRY PRODUCTS",
       "LOWLAND VEGETABLES", "HIGHLAND VEGETABLES", "SPICES",
       "FRUITS", "OTHER BASIC COMMODITIES" >>

UNKNOWN == "UNKNOWN"

(***************************************************************************)
(* UNIT EXTRACTION                                                         *)
(***************************************************************************)
\* A variant of extract_unit_from_spec that tests the cooking oil before
\* the chicken egg.
extract_unit_from_spec_OilFirst(spec_text, commodity_name) ==
    LET upper_spec == Upper(spec_text)
        upper_name == Upper(commodity_name)
    IN  IF Contains(upper_name, "COOKING OIL")
        THEN IF Contains(upper_spec, "350") /\ Contains(upper_spec, "ML")
             THEN "350 ml"
             ELSE IF Contains(upper_spec, "500") /\ Contains(upper_spec, "ML")
             THEN "500 ml"
             ELSE IF Contains(upper_spec, "1")
                     /\ (Contains(upper_spec, "LITER") \/ Contains(upper_spec, "L"))
             THEN "1 L"
             ELSE "L"
        ELSE IF Contains(upper_name, "EGG") /\ Contains(upper_name, "CHICKEN")
        THEN "pc"
        ELSE "kg"

\* main.py:112-135
extract_unit_from_spec(spec_text, commodity_name) ==
    LET upper_spec == Upper(spec_text)
        upper_name == Upper(commodity_name)
    IN  IF Contains(upper_name, "EGG") /\ Contains(upper_name, "CHICKEN")
        THEN "pc"
        ELSE IF Contains(upper_name, "COOKING OIL")
        THEN IF Contains(upper_spec, "350") /\ Contains(upper_spec, "ML")
             THEN "350 ml"
             ELSE IF Contains(upper_spec, "500") /\ Contains(upper_spec, "ML")
             THEN "500 ml"
             ELSE IF Contains(upper_spec, "1")
                     /\ (Contains(upper_spec, "LITER") \/ Contains(upper_spec, "L"))
             THEN "1 L"
             ELSE "L"
        ELSE "kg"

(***************************************************************************)
(* COMMODITY NORMALIZATION                                                 *)
(*                                                                         *)
(* normalize_commodity_name returns (clean_name, specification); the       *)
(* parser reads only clean_name (main.py:670, the specification is not a   *)
(* field of PriceRow), so the model computes the name alone.               *)
(***************************************************************************)

\* A variant of sanitize that collapses the whitespace before removing the
\* control characters.
sanitize_CollapseFirst(commodity_text) ==
    Sub(Cls(ControlChars), "", JoinSplit(commodity_text), FALSE)

\* The text sanitizer: control characters removed, whitespace runs
\* collapsed to single spaces, ends trimmed.
RemoveControl(s) == Sub(Cls(ControlChars), "", s, FALSE)

sanitize(commodity_text) == JoinSplit(RemoveControl(commodity_text))

\* An ordered list of `if <test>: return <name>` rules: the first rule
\* whose test holds gives the name.  A rule is <<test, name>>.
NoRule == [hit |-> FALSE, name |-> ""]

FirstRule(rules) ==
    LET hits == {k \in 1..Len(rules) : rules[k][1]}
    IN  IF hits = {} THEN NoRule
        ELSE [hit |-> TRUE,
              name |-> rules[CHOOSE k \in hits : \A j \in hits : k <= j][2]]

Hit(name) == [hit |-> TRUE, name |-> name]

RiceRules(u) ==
    FirstRule(<<
        <<Contains(u, "BASMATI"), "Basmati Rice">>,
        <<Contains(u, "GLUTINOUS"), "Glutinous Rice">>,
        <<Contains(u, "JASPONICA") \/ Contains(u, "JAPONICA"), "Jasponica Rice">>,
        <<Contains(u, "SPECIAL") /\ Contains(u, "WHITE"), "Special White Rice">>,
        <<Contains(u, "PREMIUM"), "Premium Rice">>,
        <<Contains(u, "WELL MILLED"), "Well Milled Rice">>,
        <<Contains(u, "REGULAR MILLED"), "Regular Milled Rice">> >>)

CornRules(u) ==
    FirstRule(<<
        <<Contains(u, "WHITE") /\ Contains(u, "COB"), "Corn White">>,
        <<Contains(u, "YELLOW") /\ Contains(u, "COB"), "Corn Yellow">>,
        <<Contains(u, "GRITS") /\ Contains(u, "WHITE") /\ Contains(u, "FOOD"),
          "Corn Grits White">>,
        <<Contains(u, "GRITS") /\ Contains(u, "YELLOW") /\ Contains(u, "FOOD"),
          "Corn Grits Yellow">>,
        <<Contains(u, "CRACKED"), "Corn Cracked">>,
        <<Contains(u, "GRITS") /\ Contains(u, "FEED"), "Corn Grits">> >>)

FishRules(u) ==
    FirstRule(<<
        <<Contains(u, "ALUMAHAN")
            \/ (Contains(u, "MACKEREL") /\ Contains(u, "INDIAN")),
          "Alumahan (Indian Mackerel)">>,
        <<Contains(u, "BANGUS") /\ Contains(u, "LARGE"), "Bangus Large">>,
        <<Contains(u, "BANGUS") /\ Contains(u, "MEDIUM"), "Bangus Medium">>,
        <<Contains(u, "BONITO"), "Bonito (Frigate Tuna)">>,
        <<Contains(u, "GALUNGGONG"), "Galunggong">>,
        <<Contains(u, "MACKEREL") /\ ~Contains(u, "INDIAN"), "Mackerel">>,
        <<Contains(u, "PAMPANO"), "Pampano">>,
        <<Contains(u, "SALMON BELLY"), "Salmon Belly">>,
        <<Contains(u, "SALMON HEAD"), "Salmon Head">>,
        <<Contains(u, "SARDINES") \/ Contains(u, "TAMBAN"), "Sardines (Tamban)">>,
        <<Contains(u, "SQUID") \/ Contains(u, "PUSIT"), "Squid">>,
        <<Contains(u, "TAMBAKOL") \/ Contains(u, "YELLOW-FIN"),
          "Tambakol (Yellow-Fin Tuna)">>,
        <<Contains(u, "TILAPIA"), "Tilapia">> >>)

\* \b(Large|Medium|Small|Lean|Boneless|with Bones)\b
BEEF_SIZE_RE ==
    Cat(<<WordBoundary,
          Grp(Alt(<<Lit("Large"), Lit("Medium"), Lit("Small"), Lit("Lean"),
                    Lit("Boneless"), Lit("with Bones")>>)),
          WordBoundary>>)

\* A variant of BeefCutRules that tests the bare RIB rule before RIB EYE.
BeefCutRules_RibFirst(u) ==
    FirstRule(<<
        <<Contains(u, "TENDERLOIN"), "Beef Tenderloin">>,
        <<Contains(u, "STRIP") /\ Contains(u, "LOIN"), "Beef Striploin">>,
        <<Contains(u, "SIRLOIN"), "Beef Sirloin">>,
        <<Contains(u, "SHORT RIB"), "Beef Short Ribs">>,
        <<Contains(u, "RIB"), "Beef Ribs">>,
        <<Contains(u, "RIB EYE"), "Beef Rib Eye">>,
        <<Contains(u, "RIB SET"), "Beef Rib Set">>,
        <<Contains(u, "RUMP"), "Beef Rump">>,
        <<Contains(u, "ROUND"), "Beef Round">>,
        <<Contains(u, "LOIN"), "Beef Loin">>,
        <<Contains(u, "PLATE"), "Beef Plate">>,
        <<Contains(u, "CHUCK"), "Beef Chuck">>,
        <<Contains(u, "BRISKET"), "Beef Brisket">>,
        <<Contains(u, "SHANK"), "Beef Shank">> >>)

\* The beef cuts, "in order of specificity" (main.py:233).
BeefCutRules(u) ==
    FirstRule(<<
        <<Contains(u, "TENDERLOIN"), "Beef Tenderloin">>,
        <<Contains(u, "STRIP") /\ Contains(u, "LOIN"), "Beef Striploin">>,
        <<Contains(u, "SIRLOIN"), "Beef Sirloin">>,
        <<Contains(u, "SHORT RIB"), "Beef Short Ribs">>,
        <<Contains(u, "RIB EYE"), "Beef Rib Eye">>,
        <<Contains(u, "RIB SET"), "Beef Rib Set">>,
        <<Contains(u, "RIB"), "Beef Ribs">>,
        <<Contains(u, "RUMP"), "Beef Rump">>,
        <<Contains(u, "ROUND"), "Beef Round">>,
        <<Contains(u, "LOIN"), "Beef Loin">>,
        <<Contains(u, "PLATE"), "Beef Plate">>,
        <<Contains(u, "CHUCK"), "Beef Chuck">>,
        <<Contains(u, "BRISKET"), "Beef Brisket">>,
        <<Contains(u, "SHANK"), "Beef Shank">> >>)

BeefRules(text, u) ==
    LET cut == BeefCutRules(u)
        base_name == StripChars(Sub(BEEF_SIZE_RE, "", text, TRUE), {",", " "})
    IN  IF cut.hit THEN cut
        ELSE Hit(IF Len(base_name) > 2 THEN base_name ELSE "Beef")

\* \b(Local|Imported|Liempo|Kasim)\b
PORK_WORD_RE ==
    Cat(<<WordBoundary,
          Grp(Alt(<<Lit("Local"), Lit("Imported"), Lit("Liempo"), Lit("Kasim")>>)),
          WordBoundary>>)

PorkRules(text, u) ==
    LET base_name == Sub(PORK_WORD_RE, "", text, TRUE)
    IN  IF Contains(u, "BELLY") THEN Hit("Pork Belly (Liempo)")
        ELSE IF Contains(u, "PICNIC SHOULDER")
        THEN Hit("Pork Picnic Shoulder (Kasim)")
        ELSE Hit(StripChars(base_name, {",", " "}))

\* \b(Magnolia|Bounty Fresh|Unbranded|Fresh|Fully Dressed)\b
POULTRY_BRAND_RE ==
    Cat(<<WordBoundary,
          Grp(Alt(<<Lit("Magnolia"), Lit("Bounty Fresh"), Lit("Unbranded"),
                    Lit("Fresh"), Lit("Fully Dressed")>>)),
          WordBoundary>>)

\* A variant of PoultryRules without the egg rule.
PoultryRules_NoEgg(text, u) ==
    Hit(StripChars(Sub(POULTRY_BRAND_RE, "", text, TRUE), {",", " "}))

PoultryRules(text, u) ==
    LET base_name == StripChars(Sub(POULTRY_BRAND_RE, "", text, TRUE), {",", " "})
    IN  IF Contains(u, "EGG") THEN Hit("Chicken Egg")
        ELSE Hit(base_name)

\* (?:Medium|Large|Small)?\s*\(?\d+-?\d*\s*(?:cm|gm?|g|pcs)
\* (?:\s*[-/]\s*\d+\s*(?:kg|cm|g|gm))?\s*(?:diameter|bunch hd|head|pcs/kg)?[)]?
VEG_SPEC_RE ==
    Cat(<<Opt(Alt(<<Lit("Medium"), Lit("Large"), Lit("Small")>>)),
          Star(Space), Opt(Lit("(")), Plus(Digit), Opt(Lit("-")), Star(Digit),
          Star(Space),
          Alt(<<Lit("cm"), Cat(<<Lit("g"), Opt(Lit("m"))>>), Lit("g"), Lit("pcs")>>),
          Opt(Cat(<<Star(Space), Cls({"-", "/"}), Star(Space), Plus(Digit),
                    Star(Space),
                    Alt(<<Lit("kg"), Lit("cm"), Lit("g"), Lit("gm")>>)>>)),
          Star(Space),
          Opt(Alt(<<Lit("diameter"), Lit("bunch hd"), Lit("head"), Lit("pcs/kg")>>)),
          Opt(Cls({")"}))>>)

\* \b(Local|Imported|Native|Suprema Variety|Medium|Large|Small)\b
VEG_WORD_RE ==
    Cat(<<WordBoundary,
          Grp(Alt(<<Lit("Local"), Lit("Imported"), Lit("Native"),
                    Lit("Suprema Variety"), Lit("Medium"), Lit("Large"),
                    Lit("Small")>>)),
          WordBoundary>>)

\* \(\s*\)
EMPTY_PARENS_RE == Cat(<<Lit("("), Star(Space), Lit(")")>>)

\* \s+
SPACES_RE == Plus(Space)

VegetableRules(text, u) ==
    LET b1 == Sub(VEG_SPEC_RE, "", text, TRUE)
        b2 == Sub(VEG_WORD_RE, "", b1, TRUE)
        b3 == Sub(EMPTY_PARENS_RE, "", b2, FALSE)
        b4 == Sub(SPACES_RE, " ", b3, FALSE)
        named == FirstRule(<<
            <<Contains(u, "BELL PEPPER") /\ Contains(u, "GREEN"), "Bell Pepper (Green)">>,
            <<Contains(u, "BELL PEPPER") /\ Contains(u, "RED"), "Bell Pepper (Red)">>,
            <<Contains(u, "BELL PEPPER"), "Bell Pepper">>,
            <<Contains(u, "CABBAGE") /\ Contains(u, "RARE BALL"), "Cabbage (Rare Ball)">>,
            <<Contains(u, "CABBAGE") /\ Contains(u, "SCORPIO"), "Cabbage (Scorpio)">>,
            <<Contains(u, "CABBAGE") /\ Contains(u, "WONDER BALL"), "Cabbage (Wonder Ball)">>,
            <<Contains(u, "CABBAGE"), "Cabbage">>,
            <<Contains(u, "LETTUCE") /\ Contains(u, "GREEN ICE"), "Lettuce (Green Ice)">>,
            <<Contains(u, "LETTUCE") /\ Contains(u, "ICEBERG"), "Lettuce (Iceberg)">>,
            <<Contains(u, "LETTUCE") /\ Contains(u, "ROMAINE"), "Lettuce (Romaine)">>,
            <<Contains(u, "LETTUCE"), "Lettuce">>,
            <<Contains(u, "BROCCOLI"), "Broccoli">>,
            <<Contains(u, "POTATO"), "White Potato">>,
            <<Contains(u, "CAULIFLOWER"), "Cauliflower">>,
            <<Contains(u, "CARROTS") \/ Contains(u, "CARROT"), "Carrots">>,
            <<Contains(u, "CELERY"), "Celery">>,
            <<Contains(u, "CHAYOTE"), "Chayote">>,
            <<Contains(u, "HABICHUELAS") \/ Contains(u, "BAGUIO BEANS"), "Baguio Beans">>,
            <<Contains(u, "PECHAY") /\ Contains(u, "BAGUIO"), "Pechay Baguio">> >>)
    IN  IF named.hit THEN named
        ELSE Hit(StripChars(b4, {",", " ", "(", ")"}))

SpiceRules(u) ==
    LET chilli == Contains(u, "CHILLI") \/ Contains(u, "CHILI")
    IN  FirstRule(<<
            <<chilli /\ (Contains(u, "RED") \/ Contains(u, "TINGALA")), "Chilli Red">>,
            <<chilli /\ Contains(u, "GREEN"), "Chilli Green">>,
            <<chilli /\ Contains(u, "TIGER"), "Tiger Chillies">>,
            <<Contains(u, "GARLIC") /\ Contains(u, "NATIVE"), "Garlic Native">>,
            <<Contains(u, "GARLIC"), "Garlic">>,
            <<Contains(u, "GINGER"), "Ginger">>,
            <<Contains(u, "ONION") /\ Contains(u, "RED"), "Red Onion">>,
            <<Contains(u, "ONION") /\ Contains(u, "WHITE"), "White Onion">> >>)

\* \b(Ripe|Green|Solo|\d+-\d+\s*pcs/kg)\b
FRUIT_SPEC_RE ==
    Cat(<<WordBoundary,
          Grp(Alt(<<Lit("Ripe"), Lit("Green"), Lit("Solo"),
                    Cat(<<Plus(Digit), Lit("-"), Plus(Digit), Star(Space),
                          Lit("pcs/kg")>>)>>)),
          WordBoundary>>)

FruitRules(text, u) ==
    LET base_name == Sub(FRUIT_SPEC_RE, "", text, TRUE)
        named == FirstRule(<<
            <<Contains(u, "BANANA") /\ Contains(u, "LAKATAN"), "Banana (Lakatan)">>,
            <<Contains(u, "BANANA") /\ Contains(u, "LATUNDAN"), "Banana (Latundan)">>,
            <<Contains(u, "BANANA") /\ Contains(u, "SABA"), "Banana (Saba)">>,
            <<Contains(u, "MANGO") /\ Contains(u, "CARABAO"), "Mango (Carabao)">>,
            <<Contains(u, "PAPAYA"), "Papaya">> >>)
    IN  IF named.hit THEN named
        ELSE Hit(StripChars(base_name, {",", " ", "(", ")"}))

\* The brand/type of a cooking oil: the if/elif chain of main.py:442-451.
CookingOilBrand(u) ==
    LET brand == FirstRule(<<
            <<Contains(u, "COCONUT"), "Coconut">>,
            <<Contains(u, "MINOLA"), "Minola">>,
            <<Contains(u, "SPRING"), "Spring">>,
            <<Contains(u, "JOLLY") \/ Contains(u, "PALM OLEIN"), "Palm Olein (Jolly)">> >>)
    IN  IF brand.hit THEN brand.name ELSE "Palm"

BasicRules(u) ==
    IF Contains(u, "COOKING OIL")
    THEN Hit("Cooking Oil (" \o CookingOilBrand(u) \o ")")
    ELSE FirstRule(<<
        <<Contains(u, "SUGAR") /\ Contains(u, "REFINED"), "Sugar (Refined)">>,
        <<Contains(u, "SUGAR") /\ Contains(u, "WASHED"), "Sugar (Washed)">>,
        <<Contains(u, "SUGAR") /\ Contains(u, "BROWN"), "Sugar (Brown)">>,
        <<Contains(u, "SALT") /\ Contains(u, "IODIZED"), "Salt (Iodized)">>,
        <<Contains(u, "SALT") /\ Contains(u, "ROCK"), "Salt (Rock)">> >>)

\* \b(Local|Imported|Fresh|Frozen|Chilled|Whole Round|Native)\b
FALLBACK_WORD_RE ==
    Cat(<<WordBoundary,
          Grp(Alt(<<Lit("Local"), Lit("Imported"), Lit("Fresh"), Lit("Frozen"),
                    Lit("Chilled"), Lit("Whole Round"), Lit("Native")>>)),
          WordBoundary>>)

\* \d+[-]?\d*\s*(?:pcs?/?kg|grams?|cm|ml|L)
FALLBACK_QTY_RE ==
    Cat(<<Plus(Digit), Opt(Cls({"-"})), Star(Digit), Star(Space),
          Alt(<<Cat(<<Lit("pc"), Opt(Lit("s")), Opt(Lit("/")), Lit("kg")>>),
                Cat(<<Lit("gram"), Opt(Lit("s"))>>),
                Lit("cm"), Lit("ml"), Lit("L")>>)>>)

FallbackName(text) ==
    StripChars(Sub(FALLBACK_QTY_RE, "", Sub(FALLBACK_WORD_RE, "", text, TRUE), TRUE),
               {",", " ", "(", ")"})

\* The category sections in source order, on the sanitized text, its upper
\* case and the upper-cased category; a section that returns nothing falls
\* through to the sections after it and at last to the fallback.
CleanName(text, upper_text, upper_cat) ==
    IF Contains(upper_cat, "RICE") /\ RiceRules(upper_text).hit
    THEN RiceRules(upper_text).name
    ELSE IF Contains(upper_cat, "CORN") /\ CornRules(upper_text).hit
    THEN CornRules(upper_text).name
    ELSE IF Contains(upper_cat, "FISH") /\ FishRules(upper_text).hit
    THEN FishRules(upper_text).name
    ELSE IF Contains(upper_cat, "BEEF") THEN BeefRules(text, upper_text).name
    ELSE IF Contains(upper_cat, "PORK") THEN PorkRules(text, upper_text).name
    ELSE IF Contains(upper_cat, "POULTRY") THEN PoultryRules(text, upper_text).name
    ELSE IF Contains(upper_cat, "VEGETABLE")
    THEN VegetableRules(text, upper_text).name
    ELSE IF Contains(upper_cat, "SPICE") /\ SpiceRules(upper_text).hit
    THEN SpiceRules(upper_text).name
    ELSE IF Contains(upper_cat, "FRUIT") THEN FruitRules(text, upper_text).name
    ELSE IF Contains(upper_cat, "BASIC") /\ BasicRules(upper_text).hit
    THEN BasicRules(upper_text).name
    ELSE FallbackName(text)

UpperName(text, category) == CleanName(text, Upper(text), Upper(category))

normalize_commodity_name(commodity_text, category) ==
    UpperName(sanitize(commodity_text), category)

(***************************************************************************)
(* MAIN PARSING FUNCTION: Extract Covered Markets (main.py:499-512)        *)
(***************************************************************************)

\* (?:d\)|Covered markets:)\s*(1\..+?)(?:Page|\Z)   (re.DOTALL | re.IGNORECASE)
MARKET_RE ==
    Cat(<<Alt(<<Lit("d)"), Lit("Covered markets:")>>),
          Star(Space),
          Grp(Cat(<<Lit("1"), Lit("."), LazyPlus(AnyChar)>>)),
          Alt(<<Lit("Page"), EndOfText>>)>>)

\* \s*\d+\.\s*
MARKET_SPLIT_RE == Cat(<<Star(Space), Plus(Digit), Lit("."), Star(Space)>>)

\* [\n\r]
NEWLINE_RE == Cls({"\n", "\r"})

\* A variant of Unique that keeps every entry.
RECURSIVE Unique_KeepAll(_)
Unique_KeepAll(seq) ==
    IF seq = <<>> THEN <<>>
    ELSE <<Head(seq)>> \o Unique_KeepAll(Tail(seq))

\* list(dict.fromkeys(seq)): the first occurrence of every entry, in order.
RECURSIVE Unique(_)
Unique(seq) ==
    IF seq = <<>> THEN <<>>
    ELSE <<Head(seq)>> \o Unique(SelectSeq(Tail(seq), LAMBDA m : m # Head(seq)))

\* main.py:511: the fragments longer than 3 characters, each with its line
\* breaks replaced by spaces and then stripped.
RECURSIVE CleanMarkets(_)
CleanMarkets(raw_markets) ==
    IF raw_markets = <<>> THEN <<>>
    ELSE (IF Len(Head(raw_markets)) > 3
          THEN <<Strip(Sub(NEWLINE_RE, " ", Head(raw_markets), FALSE))>>
          ELSE <<>>) \o CleanMarkets(Tail(raw_markets))

\* main.py:508-510: raw_markets, the fragments of the block; market_match
\* is the result of the search.  Without a match there are no fragments.
SplitBlock(market_match) ==
    IF market_match.found
    THEN Split(MARKET_SPLIT_RE, market_match.group1, FALSE)
    ELSE <<>>

\* main.py:502-510: raw_markets for the text.
SplitMarkets(raw_text) == SplitBlock(Search(MARKET_RE, raw_text, TRUE))

\* main.py:493, 511-512: market_list for the fragments.
MarketsOf(fragments) == Unique(CleanMarkets(fragments))

\* main.py:493, 502-512: parse_text_to_json(raw_text)["covered_markets"]
covered_markets(raw_text) == MarketsOf(SplitMarkets(raw_text))

(***************************************************************************)
(* MAIN PARSING FUNCTION: the line classifier                              *)
(***************************************************************************)

\* Page\s+\d+\s+of\s+\d+   (re.IGNORECASE)
PAGE_RE ==
    Cat(<<Lit("Page"), Plus(Space), Plus(Digit), Plus(Space), Lit("of"),
          Plus(Space), Plus(Digit)>>)

\* \s+(\d{1,3}(?:,\d{3})*\.\d{2}|n/a)\s*$
PRICE_RE ==
    Cat(<<Plus(Space),
          Grp(Alt(<<Cat(<<Rep13(Digit), Star(Cat(<<Lit(","), Rep3(Digit)>>)),
                          Lit("."), Rep2(Digit)>>),
                    Lit("n/a")>>)),
          Star(Space), EndOfText>>)

\* (?:PREVAILING\s+)?(?:RETAIL\s+)?PRICE\s+PER(?:\s+UNIT)?   (re.IGNORECASE)
HEADER_PHRASE_RE ==
    Cat(<<Opt(Cat(<<Lit("PREVAILING"), Plus(Space)>>)),
          Opt(Cat(<<Lit("RETAIL"), Plus(Space)>>)),
          Lit("PRICE"), Plus(Space), Lit("PER"),
          Opt(Cat(<<Plus(Space), Lit("UNIT")>>))>>)

\* \b(PREVAILING|RETAIL|PRICE|PER|UNIT|COMMODITY|SPECIFICATION|PAGE|
\*    DEPARTMENT|COVERED|MARKETS|OF|P/UNIT)\b\s*   (re.IGNORECASE)
HEADER_WORD_RE ==
    Cat(<<WordBoundary,
          Grp(Alt(<<Lit("PREVAILING"), Lit("RETAIL"), Lit("PRICE"), Lit("PER"),
                    Lit("UNIT"), Lit("COMMODITY"), Lit("SPECIFICATION"),
                    Lit("PAGE"), Lit("DEPARTMENT"), Lit("COVERED"),
                    Lit("MARKETS"), Lit("OF"), Lit("P/UNIT")>>)),
          WordBoundary, Star(Space)>>)

\* ,?\s*\b(Local|Imported)\b   (re.IGNORECASE)
ORIGIN_RE ==
    Cat(<<Opt(Lit(",")), Star(Space), WordBoundary,
          Grp(Alt(<<Lit("Local"), Lit("Imported")>>)), WordBoundary>>)

\* sum(1 for kw in kws if kw in text)
CountIn(kws, text) == Cardinality({k \in 1..Len(kws) : Contains(text, kws[k])})


\* A variant of CategoryIndex that takes the last label in list order.
CategoryIndex_Last(line) ==
    LET u == Upper(line)
        hits == {k \in 1..Len(KNOWN_CATEGORIES) : Contains(u, KNOWN_CATEGORIES[k])}
    IN  IF hits = {} THEN 0 ELSE CHOOSE k \in hits : \A j \in hits : j <= k

\* The category header test (main.py:526-533): the first known label, in
\* list order, that the upper-cased line contains; 0 when there is none.
CategoryIndex(line) ==
    LET u == Upper(line)
        hits == {k \in 1..Len(KNOWN_CATEGORIES) : Contains(u, KNOWN_CATEGORIES[k])}
    IN  IF hits = {} THEN 0 ELSE CHOOSE k \in hits : \A j \in hits : k <= j

IsPageIndicator(text) == Search(PAGE_RE, text, TRUE).found

\* main.py:545-551
IsHeaderFooter(line) ==
    \/ CountIn(<<"Source:", "Note:", "Department">>, line) >= 1
    \/ Contains(line, "PREVAILING")
    \/ Contains(line, "COMMODITY")
    \/ Contains(line, "SPECIFICATION")
    \/ Contains(line, "PRICE PER UNIT")

price_match(line) == Search(PRICE_RE, line, FALSE)

(***************************************************************************)
(* MAIN PARSING FUNCTION: a price-terminated line                          *)
(***************************************************************************)
DigitValue(c) == CHOOSE d \in 0..9 : Ch("0123456789", d + 1) = c

RECURSIVE DigitsValue(_)
DigitsValue(s) ==
    IF s = "" THEN 0
    ELSE 10 * DigitsValue(SubSeq(s, 1, Len(s) - 1)) + DigitValue(Ch(s, Len(s)))


\* A variant of FloatCents that drops the fraction digits.
FloatCents_WholeOnly(price_str) ==
    100 * DigitsValue(SubSeq(price_str, 1, Len(price_str) - 3))

\* float(price_str) for price_str = <digits>.<two digits>, in cents.
FloatCents(price_str) ==
    100 * DigitsValue(SubSeq(price_str, 1, Len(price_str) - 3))
      + DigitsValue(SubSeq(price_str, Len(price_str) - 1, Len(price_str)))

\* A variant of final_price that reads the placeholder as the price zero.
final_price_ZeroWhenAbsent(price_str) ==
    IF price_str \notin {"n/a", "-"} THEN <<FloatCents(price_str)>> ELSE <<0>>

\* final_price (main.py:679-684): an Optional[float], <<>> for None and
\* <<cents>> for a number.
final_price(price_str) ==
    IF price_str \notin {"n/a", "-"} THEN <<FloatCents(price_str)>> ELSE <<>>

HEADER_KEYWORDS ==
    <<"PREVAILING", "RETAIL", "PRICE", "COMMODITY", "SPECIFICATION", "UNIT", "P/UNIT">>

BLACKLIST ==
    {"PREVAILING", "PRICE", "UNIT", "COMMODITY", "SPECIFICATION", "PAGE", "RETAIL",
     "RETAIL PRICE PER", "PREVAILING RETAIL", "PRICE PER UNIT"}

\* main.py:597-620: the header phrase and the header words removed from the
\* line content; "skip" is the early exit of main.py:605-609.
CleanHeaderWords(original_content) ==
    LET stripped == Strip(Sub(HEADER_PHRASE_RE, "", original_content, TRUE))
        dropped == Strip(Sub(HEADER_WORD_RE, "", stripped, TRUE))
    IN  [skip |-> stripped = original_content
                    /\ CountIn(HEADER_KEYWORDS, Upper(original_content)) >= 1,
         text |-> Strip(Sub(SPACES_RE, " ", dropped, FALSE))]

\* main.py:565-635: TRUE when the line is dropped before a row is built;
\* cleaned is CleanHeaderWords(line_content).
IsSkippedRow(line_content, cleaned) ==
    \/ IsPageIndicator(line_content)
    \/ CountIn(HEADER_KEYWORDS, Upper(line_content)) >= 2
    \/ Contains(Upper(line_content), "RETAIL PRICE PER")
    \/ Contains(Upper(line_content), "PREVAILING RETAIL")
    \/ cleaned.skip
    \/ Len(cleaned.text) < 3
    \/ (Contains(Upper(cleaned.text), "RETAIL")
          /\ Contains(Upper(cleaned.text), "PRICE"))

\* A variant of Origin that reads the line content alone.
Origin_LineOnly(line_content, category) ==
    IF Contains(Upper(line_content), "IMPORTED") THEN "Imported" ELSE "Local"

\* main.py:640-642
Origin(line_content, category) ==
    IF Contains(Upper(line_content), "IMPORTED") \/ Contains(category, "IMPORTED")
    THEN "Imported" ELSE "Local"

\* main.py:687
clean_cat(category) ==
    Strip(RemoveAll(RemoveAll(category, "IMPORTED "), "LOCAL "))

\* A variant of IsSavedRow without the test of the name's length.
IsSavedRow_AnyLength(clean_name, price) ==
    /\ clean_name # ""
    /\ price # <<>>
    /\ Upper(clean_name) \notin BLACKLIST
    /\ CountIn(<<"RETAIL", "PRICE", "PER", "UNIT", "PREVAILING">>, Upper(clean_name)) < 2

\* A variant of IsSavedRow without the tests of the header words.
IsSavedRow_AnyWords(clean_name, price) ==
    /\ clean_name # ""
    /\ Len(clean_name) > 2
    /\ price # <<>>

\* main.py:690-697: whether the row is saved.
IsSavedRow(clean_name, price) ==
    /\ clean_name # ""
    /\ Len(clean_name) > 2
    /\ price # <<>>
    /\ Upper(clean_name) \notin BLACKLIST
    /\ CountIn(<<"RETAIL", "PRICE", "PER", "UNIT", "PREVAILING">>, Upper(clean_name)) < 2

\* main.py:655-665: the text handed to the normalizer.
full_commodity(line_content_clean, cbuf) ==
    IF cbuf # <<>> /\ Join(cbuf, " ") # "" THEN Join(cbuf, " ")
    ELSE line_content_clean

\* main.py:655-665: the text handed to the unit resolver's first argument
\* before its `if full_spec else full_commodity` default.
full_spec(line_content_clean, cbuf, sbuf) ==
    IF ~(cbuf # <<>> /\ Join(cbuf, " ") # "") THEN ""
    ELSE IF sbuf # <<>> THEN Join(Append(sbuf, line_content_clean), " ")
    ELSE line_content_clean

\* main.py:562-650: what a price-terminated line gives before the buffers
\* are read: the price token, the line content and its cleaned forms.
CleanedRow(price_str, line_content, cleaned) ==
    [price_str |-> price_str,
     skipped |-> IsSkippedRow(line_content, cleaned),
     content |-> cleaned.text,
     line_content_clean |-> Strip(Sub(ORIGIN_RE, "", cleaned.text, TRUE))]

RowContent(price_str, line_content) ==
    CleanedRow(price_str, line_content, CleanHeaderWords(line_content))

RowParts(line, m) ==
    RowContent(RemoveAll(m.group1, ","), Strip(SubSeq(line, 1, m.start - 1)))

\* The tests the loop body makes on one stripped line (main.py:519-560); m
\* is the price match.
ScanLine(line, m) ==
    [line |-> line,
     category_index |-> CategoryIndex(line),
     is_page |-> IsPageIndicator(line),
     is_header |-> IsHeaderFooter(line),
     has_price |-> m.found,
     row |-> IF m.found THEN RowParts(line, m) ELSE <<>>]

Scan(raw) == ScanLine(Strip(raw), price_match(Strip(raw)))

(***************************************************************************)
(* The documents of the model                                              *)
(***************************************************************************)

\* The longest document, in lines, and the lines a document is made of.
MaxLines == 4

LineVocabulary ==
    { "",
      "FISH PRODUCTS",
      "Poultry Products",
      "Bangus",
      "Large                      250.00",
      "Chicken Egg Medium 8.50",
      "Page 2 of 5",
      "Tilapia n/a",
      "(a) 5.00",
      "Source: DA" }

\* raw_text.split('\n') for the documents of the model.
Documents == UNION {[1..n -> LineVocabulary] : n \in 1..MaxLines}

\* Lines for the paths of the price branch (main.py:562-708): a row that is
\* saved, an absent price, a header row with a price, a content of two
\* characters, and header words that a continuation line buffers.
RowVocabulary ==
    { "",
      "FISH PRODUCTS",
      "Page 2 of 5",
      "Note: 5.00",
      "Bangus",
      "Price",
      "Retail Price",
      "Large 250.00",
      "Tilapia n/a",
      "Retail Price 5.00",
      "ab 5.00" }

RowDocuments == UNION {[1..n -> RowVocabulary] : n \in 1..MaxLines}

\* Lines for the origin and the category of a row (main.py:640-650, 687):
\* the two rice categories, and the word Imported in a buffered line and in
\* a price-terminated line.
OriginVocabulary ==
    { "",
      "IMPORTED COMMERCIAL RICE",
      "LOCAL COMMERCIAL RICE",
      "FISH PRODUCTS",
      "Page 2 of 5",
      "Source: DA",
      "Salmon Imported",
      "Well Milled 45.00",
      "Salmon, Imported 250.00",
      "Tilapia 120.00" }

OriginDocuments == UNION {[1..n -> OriginVocabulary] : n \in 1..MaxLines}

\* The longest document with a list of markets, in lines, and its lines: a
\* list begun by each label, list items (one met twice, one of three
\* characters), and lines that end the list or follow it.
MaxMarketLines == 3

MarketVocabulary ==
    { "",
      "FISH PRODUCTS",
      "Page 2 of 5",
      "Source: DA",
      "Large 250.00",
      "Covered markets: 1. Agora",
      "d) 1. Pasig 2. Agora 3. Pasig",
      "2. Pasig 3. Agora",
      "4. abc" }

MarketDocuments == UNION {[1..n -> MarketVocabulary] : n \in 1..MaxMarketLines}

\* Lines for the tests on a line's words and on its last word: two header
\* words without and with a price, a price token alone, and a price with a
\* thousands separator.
TokenVocabulary ==
    { "",
      "Page 2 of 5",
      "Source: DA",
      "FISH PRODUCTS",
      "Poultry Products",
      "UNIT PRICE",
      "RETAIL PRICE 5.00",
      "Bangus",
      "Tilapia 120.00",
      "250.00",
      "Lean 1,234.50" }

TokenDocuments == UNION {[1..n -> TokenVocabulary] : n \in 1..MaxLines}

\* Lines for the category test: one label, two labels in one line (the
\* later in the list standing first), and a label of another case.
MaxLabelLines == 3

LabelVocabulary ==
    { "",
      "Page 2 of 5",
      "Source: DA",
      "Bangus",
      "Large 250.00",
      "FISH PRODUCTS",
      "Poultry Products / FISH PRODUCTS",
      "Poultry Products",
      "LOCAL COMMERCIAL RICE" }

LabelDocuments == UNION {[1..n -> LabelVocabulary] : n \in 1..MaxLabelLines}

\* Every line of the documents of the model.
AllLines ==
    LineVocabulary \cup RowVocabulary \cup OriginVocabulary \cup MarketVocabulary
        \cup TokenVocabulary \cup LabelVocabulary

\* Whether a line holds a label the search of main.py:502-506 can start at.
\* The labels hold no line break, so a text none of whose lines holds one
\* has no match, and the search is made on the other texts only.
MarkerTable ==
    [raw \in AllLines |->
        Contains(Upper(raw), "D)") \/ Contains(Upper(raw), "COVERED MARKETS:")]

\* raw_markets at the head of the loop (main.py:502-510), for the lines of
\* raw_text.
RawMarkets(doc) ==
    IF \E k \in 1..Len(doc) : MarkerTable[doc[k]]
    THEN SplitMarkets(Join(doc, "\n"))
    ELSE <<>>

\* The tests of the loop body are evaluated once for each line of the
\* vocabulary and looked up afterwards.
ScanTable == [raw \in AllLines |-> Scan(raw)]

Scanned(raw) == ScanTable[raw]

\* Which branch of the loop body a line takes; scanned is Scanned(raw).
LineKind(scanned, category) ==
    IF scanned.line = "" THEN "blank"
    ELSE IF scanned.category_index # 0 THEN "category"
    ELSE IF scanned.is_page THEN "page"
    ELSE IF scanned.is_header THEN "header"
    ELSE IF category = UNKNOWN THEN "unknown"
    ELSE IF scanned.has_price THEN "price"
    ELSE "continuation"

\* main.py:676-704: the rows (none or one) saved for a normalized name.
SavedRows(row, category, spec, clean_name, price) ==
    IF IsSavedRow(clean_name, price)
    THEN << [category |-> clean_cat(category), commodity |-> clean_name,
             origin |-> Origin(row.content, category),
             unit |-> extract_unit_from_spec(spec, clean_name),
             price |-> price] >>
    ELSE <<>>

\* main.py:652-704: the rows (none or one) a price-terminated line appends;
\* row is Scanned(raw).row.
PriceRows(row, category, cbuf, sbuf) ==
    LET commodity == full_commodity(row.line_content_clean, cbuf)
        spec == full_spec(row.line_content_clean, cbuf, sbuf)
    IN  IF row.skipped THEN <<>>
        ELSE SavedRows(row, category, IF spec # "" THEN spec ELSE commodity,
                       normalize_commodity_name(commodity, category),
                       final_price(row.price_str))

\* The categories, the price-terminated lines and the buffer contents the
\* documents of the model can give, and PriceRows evaluated once for each.
CategorySet ==
    {KNOWN_CATEGORIES[CategoryIndex(Strip(raw))] :
        raw \in {r \in AllLines : CategoryIndex(Strip(r)) # 0}}

PriceLines ==
    {raw \in AllLines : LineKind(ScanTable[raw], "") = "price"}

BufferTexts ==
    {Strip(raw) :
        raw \in {r \in AllLines : LineKind(ScanTable[r], "") = "continuation"}}

\* commodity_buffer holds one line at most (main.py:715-716); the
\* specification buffer holds the continuation lines after it, which leave
\* room for a category line, the buffered commodity and the price line.
Buffers == UNION {[1..n -> BufferTexts] : n \in 0..(MaxLines - 3)}

RowTable ==
    [c \in PriceLines \X CategorySet \X {b \in Buffers : Len(b) <= 1} \X Buffers |->
        PriceRows(ScanTable[c[1]].row, c[2], c[3], c[4])]

\* The longest document of the runs that are checked for termination.
MaxFairLines == 3

\* The rows of the price lines of LineVocabulary whose buffers fit a
\* document of MaxFairLines lines: evaluated once, as ScanTable is, and
\* looked up.
ShortBuffers ==
    UNION {[1..n -> BufferTexts \cap {Strip(raw) : raw \in LineVocabulary}] :
              n \in 0..(MaxFairLines - 3)}

ShortRowTable ==
    [c \in {<<raw, category, cbuf, sbuf>> :
                raw \in PriceLines \cap LineVocabulary,
                category \in {KNOWN_CATEGORIES[ScanTable[r].category_index] :
                                 r \in {x \in LineVocabulary : ScanTable[x].category_index # 0}},
                cbuf \in {<<>>} \cup {<<t>> : t \in BufferTexts \cap {Strip(raw) : raw \in LineVocabulary}},
                sbuf \in ShortBuffers} |->
        PriceRows(ScanTable[c[1]].row, c[2], c[3], c[4])]

\* The rows the price branch appends for the raw line in the state st.
Rows(raw, st) ==
    IF <<raw, st.category, st.cbuf, st.sbuf>> \in DOMAIN ShortRowTable
    THEN ShortRowTable[<<raw, st.category, st.cbuf, st.sbuf>>]
    ELSE RowTable[<<raw, st.category, st.cbuf, st.sbuf>>]

(***************************************************************************)
(* MAIN PARSING FUNCTION: the loop over the lines                          *)
(***************************************************************************)
VARIABLES
    lines,                  \* raw_text.split('\n')
    i,                      \* the loop index (lines visited so far)
    current_category,
    commodity_buffer,
    specification_buffer,
    price_data_list,
    raw_markets,            \* the fragments of the block of markets
    market_list,
    returned,               \* TRUE once the function has returned
    arg_text,               \* the text a pure function is called with
    arg_category,           \* the category it is called with
    arg_name,               \* the commodity name it is called with
    result_text,            \* what the last call returned
    calls,                  \* the calls made so far
    frames,                 \* the locals of each of several invocations
    scrape,                 \* the locals of one scrape of the page of links
    worker                  \* the queue worker: its messages and its callback

parser_vars == <<lines, i, current_category, commodity_buffer,
                 specification_buffer, price_data_list, raw_markets, market_list,
                 returned>>

call_vars == <<arg_text, arg_category, arg_name, result_text, calls>>

vars == <<parser_vars, call_vars, frames, scrape, worker>>

\* The state the loop body reads and writes, as one value.
LoopState ==
    [category |-> current_category, cbuf |-> commodity_buffer,
     sbuf |-> specification_buffer, rows |-> price_data_list]

InitialLoopState ==
    [category |-> UNKNOWN, cbuf |-> <<>>, sbuf |-> <<>>, rows |-> <<>>]

\* Variants of OnCategory: one that resets the commodity buffer alone, one
\* that resets neither buffer.
OnCategory_KeepSpecification(st, raw) ==
    [st EXCEPT !.category = KNOWN_CATEGORIES[Scanned(raw).category_index],
               !.cbuf = <<>>]

OnCategory_KeepBuffers(st, raw) ==
    [st EXCEPT !.category = KNOWN_CATEGORIES[Scanned(raw).category_index]]

\* main.py:527-537
OnCategory(st, raw) ==
    [st EXCEPT !.category = KNOWN_CATEGORIES[Scanned(raw).category_index],
               !.cbuf = <<>>, !.sbuf = <<>>]

\* main.py:541-543
OnPageIndicator(st, raw) == st

\* A variant of OnHeaderFooter that empties both buffers.
OnHeaderFooter_Reset(st, raw) == [st EXCEPT !.cbuf = <<>>, !.sbuf = <<>>]

\* main.py:545-553
OnHeaderFooter(st, raw) == st

\* A variant of OnUnknown that buffers the line as a commodity.
OnUnknown_Buffered(st, raw) == [st EXCEPT !.cbuf = Append(@, Strip(raw))]

\* main.py:555-557
OnUnknown(st, raw) == st

\* A variant of OnPrice that puts the new row in front of the rows.
OnPrice_Prepend(st, raw) ==
    [st EXCEPT !.rows = Rows(raw, st) \o @,
               !.cbuf = <<>>, !.sbuf = <<>>]

\* A variant of OnPrice that resets the buffers only when a row is saved.
OnPrice_ResetWhenSaved(st, raw) ==
    IF Rows(raw, st) = <<>> THEN st
    ELSE [st EXCEPT !.rows = @ \o Rows(raw, st),
                    !.cbuf = <<>>, !.sbuf = <<>>]

\* main.py:562-708
OnPrice(st, raw) ==
    [st EXCEPT !.rows = @ \o Rows(raw, st),
               !.cbuf = <<>>, !.sbuf = <<>>]


\* A variant of OnContinuation that puts a later line in front of the
\* specification buffer.
OnContinuation_Prepend(st, raw) ==
    IF st.cbuf = <<>> THEN [st EXCEPT !.cbuf = Append(@, Strip(raw))]
    ELSE [st EXCEPT !.sbuf = <<Strip(raw)>> \o @]

\* main.py:710-718
OnContinuation(st, raw) ==
    IF st.cbuf = <<>> THEN [st EXCEPT !.cbuf = Append(@, Strip(raw))]
    ELSE [st EXCEPT !.sbuf = Append(@, Strip(raw))]

\* One iteration of the loop body on the raw line.
Iterate(st, raw) ==
    LET kind == LineKind(Scanned(raw), st.category)
    IN  CASE kind = "blank" -> st
          [] kind = "category" -> OnCategory(st, raw)
          [] kind = "page" -> OnPageIndicator(st, raw)
          [] kind = "header" -> OnHeaderFooter(st, raw)
          [] kind = "unknown" -> OnUnknown(st, raw)
          [] kind = "price" -> OnPrice(st, raw)
          [] kind = "continuation" -> OnContinuation(st, raw)

\* parse_text_to_json(...)["price_data"] as a function of the lines.
RECURSIVE ParseFrom(_, _, _)
ParseFrom(st, doc, k) ==
    IF k > Len(doc) THEN st.rows
    ELSE ParseFrom(Iterate(st, doc[k]), doc, k + 1)

price_data(doc) == ParseFrom(InitialLoopState, doc, 1)

\* No pure function is under call, and no document is under parse.
NoCall ==
    /\ arg_text = ""
    /\ arg_category = ""
    /\ arg_name = ""
    /\ result_text = ""
    /\ calls = 0

NoParse ==
    /\ lines = <<>>
    /\ i = 0
    /\ current_category = UNKNOWN
    /\ commodity_buffer = <<>>
    /\ specification_buffer = <<>>
    /\ price_data_list = <<>>
    /\ raw_markets = <<>>
    /\ market_list = <<>>
    /\ returned = FALSE

Init ==
    /\ lines \in Documents
    /\ i = 0
    /\ current_category = UNKNOWN
    /\ commodity_buffer = <<>>
    /\ specification_buffer = <<>>
    /\ price_data_list = <<>>
    /\ raw_markets = RawMarkets(lines)
    /\ market_list = MarketsOf(raw_markets)
    /\ returned = FALSE
    /\ NoCall
    /\ frames = <<>>
    /\ scrape = <<>>
    /\ worker = <<>>

\* The raw line of this iteration: lines[i]
Line == lines[i + 1]

InLoop == ~returned /\ i < Len(lines)

\* A variant of Advance that leaves the index where it is.
Advance_NoStep(st) ==
    /\ i' = i
    /\ current_category' = st.category
    /\ commodity_buffer' = st.cbuf
    /\ specification_buffer' = st.sbuf
    /\ price_data_list' = st.rows
    /\ UNCHANGED <<lines, raw_markets, market_list, returned, call_vars, frames, scrape, worker>>

\* The loop body leaves the state `st` and advances the index.
Advance(st) ==
    /\ i' = i + 1
    /\ current_category' = st.category
    /\ commodity_buffer' = st.cbuf
    /\ specification_buffer' = st.sbuf
    /\ price_data_list' = st.rows
    /\ UNCHANGED <<lines, raw_markets, market_list, returned, call_vars, frames, scrape, worker>>

SkipBlank ==
    /\ InLoop
    /\ LineKind(Scanned(Line), current_category) = "blank"
    /\ i' = i + 1
    /\ UNCHANGED <<lines, current_category, commodity_buffer,
                   specification_buffer, price_data_list, raw_markets,
                   market_list, returned, call_vars, frames, scrape, worker>>

CategoryHeader ==
    /\ InLoop
    /\ LineKind(Scanned(Line), current_category) = "category"
    /\ Advance(OnCategory(LoopState, Line))

SkipPageIndicator ==
    /\ InLoop
    /\ LineKind(Scanned(Line), current_category) = "page"
    /\ Advance(OnPageIndicator(LoopState, Line))

SkipHeaderFooter ==
    /\ InLoop
    /\ LineKind(Scanned(Line), current_category) = "header"
    /\ Advance(OnHeaderFooter(LoopState, Line))

SkipUnknown ==
    /\ InLoop
    /\ LineKind(Scanned(Line), current_category) = "unknown"
    /\ Advance(OnUnknown(LoopState, Line))

PriceLine ==
    /\ InLoop
    /\ LineKind(Scanned(Line), current_category) = "price"
    /\ Advance(OnPrice(LoopState, Line))

ContinuationLine ==
    /\ InLoop
    /\ LineKind(Scanned(Line), current_category) = "continuation"
    /\ Advance(OnContinuation(LoopState, Line))

\* main.py:722-725
Return ==
    /\ ~returned
    /\ i = Len(lines)
    /\ returned' = TRUE
    /\ UNCHANGED <<lines, i, current_category, commodity_buffer,
                   specification_buffer, price_data_list, raw_markets,
                   market_list, call_vars, frames, scrape, worker>>

Next ==
    \/ SkipBlank
    \/ CategoryHeader
    \/ SkipPageIndicator
    \/ SkipHeaderFooter
    \/ SkipUnknown
    \/ PriceLine
    \/ ContinuationLine
    \/ Return

Spec == Init /\ [][Next]_vars

\* The same loop over the documents of MaxFairLines lines at most, for a
\* call that runs on: a step that can be taken is taken in the end.
InitFair ==
    /\ lines \in {doc \in Documents : Len(doc) <= MaxFairLines}
    /\ i = 0
    /\ current_category = UNKNOWN
    /\ commodity_buffer = <<>>
    /\ specification_buffer = <<>>
    /\ price_data_list = <<>>
    /\ raw_markets = RawMarkets(lines)
    /\ market_list = MarketsOf(raw_markets)
    /\ returned = FALSE
    /\ NoCall
    /\ frames = <<>>
    /\ scrape = <<>>
    /\ worker = <<>>

SpecFair == InitFair /\ [][Next]_vars /\ WF_vars(Next)

\* The same loop over the documents of RowVocabulary.
InitRows ==
    /\ lines \in RowDocuments
    /\ i = 0
    /\ current_category = UNKNOWN
    /\ commodity_buffer = <<>>
    /\ specification_buffer = <<>>
    /\ price_data_list = <<>>
    /\ raw_markets = RawMarkets(lines)
    /\ market_list = MarketsOf(raw_markets)
    /\ returned = FALSE
    /\ NoCall
    /\ frames = <<>>
    /\ scrape = <<>>
    /\ worker = <<>>

SpecRows == InitRows /\ [][Next]_vars

\* The same loop over the documents of OriginVocabulary.
InitOrigin ==
    /\ lines \in OriginDocuments
    /\ i = 0
    /\ current_category = UNKNOWN
    /\ commodity_buffer = <<>>
    /\ specification_buffer = <<>>
    /\ price_data_list = <<>>
    /\ raw_markets = RawMarkets(lines)
    /\ market_list = MarketsOf(raw_markets)
    /\ returned = FALSE
    /\ NoCall
    /\ frames = <<>>
    /\ scrape = <<>>
    /\ worker = <<>>

SpecOrigin == InitOrigin /\ [][Next]_vars

\* The same loop over the documents of MarketVocabulary.
InitMarkets ==
    /\ lines \in MarketDocuments
    /\ i = 0
    /\ current_category = UNKNOWN
    /\ commodity_buffer = <<>>
    /\ specification_buffer = <<>>
    /\ price_data_list = <<>>
    /\ raw_markets = RawMarkets(lines)
    /\ market_list = MarketsOf(raw_markets)
    /\ returned = FALSE
    /\ NoCall
    /\ frames = <<>>
    /\ scrape = <<>>
    /\ worker = <<>>

SpecMarkets == InitMarkets /\ [][Next]_vars

\* The same loop over the documents of TokenVocabulary.
InitTokens ==
    /\ lines \in TokenDocuments
    /\ i = 0
    /\ current_category = UNKNOWN
    /\ commodity_buffer = <<>>
    /\ specification_buffer = <<>>
    /\ price_data_list = <<>>
    /\ raw_markets = RawMarkets(lines)
    /\ market_list = MarketsOf(raw_markets)
    /\ returned = FALSE
    /\ NoCall
    /\ frames = <<>>
    /\ scrape = <<>>
    /\ worker = <<>>

SpecTokens == InitTokens /\ [][Next]_vars

\* The same loop over the documents of LabelVocabulary.
InitLabels ==
    /\ lines \in LabelDocuments
    /\ i = 0
    /\ current_category = UNKNOWN
    /\ commodity_buffer = <<>>
    /\ specification_buffer = <<>>
    /\ price_data_list = <<>>
    /\ raw_markets = RawMarkets(lines)
    /\ market_list = MarketsOf(raw_markets)
    /\ returned = FALSE
    /\ NoCall
    /\ frames = <<>>
    /\ scrape = <<>>
    /\ worker = <<>>

SpecLabels == InitLabels /\ [][Next]_vars

(***************************************************************************)
(* Several invocations of parse_text_to_json at once                       *)
(*                                                                         *)
(* Every name the function assigns is a local of the call (main.py:490-497,*)
(* 517): each invocation has a frame of its own, and an invocation takes   *)
(* its steps, one iteration of the loop each, in any order with the steps  *)
(* of the others.                                                          *)
(***************************************************************************)
Invocations == {1, 2}

\* The longest document of an invocation, in lines, and its lines.
MaxFrameLines == 3

FrameVocabulary == {"FISH PRODUCTS", "Bangus", "Large 250.00"}

FrameDocuments == UNION {[1..n -> FrameVocabulary] : n \in 1..MaxFrameLines}

\* The locals of an invocation at the head of the loop (main.py:490-517).
InitialFrame(doc) ==
    [lines |-> doc, i |-> 0, current_category |-> UNKNOWN,
     commodity_buffer |-> <<>>, specification_buffer |-> <<>>,
     price_data_list |-> <<>>, market_list |-> MarketsOf(RawMarkets(doc)),
     returned |-> FALSE]

\* The frame after the loop body has left the state st (main.py:518-720).
FrameAfter(f, st) ==
    [f EXCEPT !.i = @ + 1, !.current_category = st.category,
              !.commodity_buffer = st.cbuf, !.specification_buffer = st.sbuf,
              !.price_data_list = st.rows]

\* A variant of NextFrame in which the buffers are those of invocation 1,
\* whichever invocation takes the step.
NextFrame_SharedBuffers(fs, p) ==
    FrameAfter(fs[p],
               Iterate([category |-> fs[p].current_category,
                        cbuf |-> fs[1].commodity_buffer,
                        sbuf |-> fs[1].specification_buffer,
                        rows |-> fs[p].price_data_list],
                       fs[p].lines[fs[p].i + 1]))

\* One iteration of the loop of invocation p: its frame afterwards.
NextFrame(fs, p) ==
    FrameAfter(fs[p],
               Iterate([category |-> fs[p].current_category,
                        cbuf |-> fs[p].commodity_buffer,
                        sbuf |-> fs[p].specification_buffer,
                        rows |-> fs[p].price_data_list],
                       fs[p].lines[fs[p].i + 1]))

InitConcurrent ==
    /\ NoParse
    /\ NoCall
    /\ scrape = <<>>
    /\ worker = <<>>
    /\ frames \in [Invocations -> {InitialFrame(doc) : doc \in FrameDocuments}]

\* main.py:518-720, in invocation p
IterateOf(p) ==
    /\ ~frames[p].returned
    /\ frames[p].i < Len(frames[p].lines)
    /\ frames' = [frames EXCEPT ![p] = NextFrame(frames, p)]
    /\ UNCHANGED <<parser_vars, call_vars, scrape, worker>>

\* main.py:722-725, in invocation p
ReturnOf(p) ==
    /\ ~frames[p].returned
    /\ frames[p].i = Len(frames[p].lines)
    /\ frames' = [frames EXCEPT ![p].returned = TRUE]
    /\ UNCHANGED <<parser_vars, call_vars, scrape, worker>>

NextConcurrent ==
    \E p \in Invocations : IterateOf(p) \/ ReturnOf(p)

SpecConcurrent == InitConcurrent /\ [][NextConcurrent]_vars

(***************************************************************************)
(* COMMODITY NORMALIZATION, called on its own                              *)
(***************************************************************************)

\* The most words in a commodity text, and the words it is made of (a text
\* holds a word once).
MaxWords == 3

WordVocabulary ==
    { "Cooking Oil", "Coconut", "Minola", "Spring", "Jolly", "Palm Olein",
      "Rib Eye", "Ribs", "Tenderloin", "Strip", "Loin", "Sirloin", "Short Rib" }

CommodityTexts ==
    {Join(ws, " ") :
        ws \in {w \in UNION {[1..n -> WordVocabulary] : n \in 1..MaxWords} :
                  \A a, b \in DOMAIN w : a # b => w[a] # w[b]}}

CallCategories == {"BEEF MEAT PRODUCTS", "OTHER BASIC COMMODITIES"}

InitNormalize ==
    /\ NoParse
    /\ arg_text \in CommodityTexts
    /\ arg_category \in CallCategories
    /\ arg_name = ""
    /\ result_text = ""
    /\ calls = 0
    /\ frames = <<>>
    /\ scrape = <<>>
    /\ worker = <<>>

\* clean_name, _ = normalize_commodity_name(arg_text, arg_category)
Normalize ==
    /\ calls = 0
    /\ result_text' = normalize_commodity_name(arg_text, arg_category)
    /\ calls' = 1
    /\ UNCHANGED <<arg_text, arg_category, arg_name, parser_vars, frames, scrape, worker>>

SpecNormalize == InitNormalize /\ [][Normalize]_vars

(***************************************************************************)
(* The text sanitizer (main.py:146-148), applied again to its own result   *)
(***************************************************************************)

\* The longest text, in characters, the characters it is made of, and the
\* most applications in a row.
MaxChars == 4

MaxCalls == 2

TextAlphabet == {"a", " ", "\t", DEL}

RECURSIVE TextsOfLength(_)
TextsOfLength(n) ==
    IF n = 0 THEN {""}
    ELSE {t \o c : t \in TextsOfLength(n - 1), c \in TextAlphabet}

RawTexts == UNION {TextsOfLength(n) : n \in 0..MaxChars}

InitSanitize ==
    /\ NoParse
    /\ arg_text \in RawTexts
    /\ arg_category = ""
    /\ arg_name = ""
    /\ result_text = arg_text
    /\ calls = 0
    /\ frames = <<>>
    /\ scrape = <<>>
    /\ worker = <<>>

\* text = sanitize(text)
Sanitize ==
    /\ calls < MaxCalls
    /\ result_text' = sanitize(result_text)
    /\ calls' = calls + 1
    /\ UNCHANGED <<arg_text, arg_category, arg_name, parser_vars, frames, scrape, worker>>

SpecSanitize == InitSanitize /\ [][Sanitize]_vars

(***************************************************************************)
(* UNIT EXTRACTION, called on its own                                      *)
(***************************************************************************)

\* The specification texts (MaxWords words at most, a word once) and the
\* commodity names the unit is extracted from.
SpecWords == {"350", "500", "1", "1500", "10", "2", "ml", "Liter", "bottle"}

SpecTexts ==
    {""} \cup
    {Join(ws, " ") :
        ws \in {w \in UNION {[1..n -> SpecWords] : n \in 1..MaxWords} :
                  \A a, b \in DOMAIN w : a # b => w[a] # w[b]}}

CommodityNames ==
    { "Chicken Egg", "Chicken Egg Cooking Oil", "Cooking Oil (Minola)",
      "cooking oil", "Salted Egg", "Whole Chicken", "Bangus", "" }

InitUnit ==
    /\ NoParse
    /\ arg_text \in SpecTexts
    /\ arg_category = ""
    /\ arg_name \in CommodityNames
    /\ result_text = ""
    /\ calls = 0
    /\ frames = <<>>
    /\ scrape = <<>>
    /\ worker = <<>>

\* unit = extract_unit_from_spec(arg_text, arg_name)
ExtractUnit ==
    /\ calls = 0
    /\ result_text' = extract_unit_from_spec(arg_text, arg_name)
    /\ calls' = 1
    /\ UNCHANGED <<arg_text, arg_category, arg_name, parser_vars, frames, scrape, worker>>

SpecUnit == InitUnit /\ [][ExtractUnit]_vars


(***************************************************************************)
(* The newest PDF link of the page (main.py:94-106, 761-778, 852-867)      *)
(***************************************************************************)
BASE_URL == "https://www.da.gov.ph"

\* ([A-Za-z]+-\d{1,2}-\d{4})
DATE_RE ==
    Grp(Cat(<<Plus(Cls(LowerChars \cup UpperChars)), Lit("-"), Digit, Opt(Digit),
              Lit("-"), Rep2(Digit), Rep2(Digit)>>))

\* The month names of %B, and of %b (their first three letters), which
\* strptime matches in either case.
MONTHS ==
    <<"January", "February", "March", "April", "May", "June", "July",
      "August", "September", "October", "November", "December">>

MONTH_ABBRS == [k \in 1..12 |-> SubSeq(MONTHS[k], 1, 3)]

\* datetime.min, and a datetime at midnight as the number yyyymmdd.
DATETIME_MIN == 10101

DateNumber(y, m, d) == 10000 * y + 100 * m + d

IsLeap(y) == (y % 4 = 0 /\ y % 100 # 0) \/ y % 400 = 0

DaysIn(m, y) ==
    IF m = 2 THEN (IF IsLeap(y) THEN 29 ELSE 28)
    ELSE IF m \in {4, 6, 9, 11} THEN 30 ELSE 31

\* The three parts of a text matched by DATE_RE.
DateParts(date_str) ==
    LET dash == CHOOSE k \in 1..Len(date_str) :
                    Ch(date_str, k) = "-" /\ \A j \in 1..(k - 1) : Ch(date_str, j) # "-"
    IN  [name |-> SubSeq(date_str, 1, dash - 1),
         day |-> SubSeq(date_str, dash + 1, Len(date_str) - 5),
         year |-> SubSeq(date_str, Len(date_str) - 3, Len(date_str))]

\* datetime.strptime(date_str, "<names>-%d-%Y") for a text matched by
\* DATE_RE: <<>> for a ValueError (no month of that name, a day that is 0
\* or above 31, the year 0, a day the month does not have), <<date>>
\* otherwise.
strptime(date_str, names) ==
    LET p == DateParts(date_str)
        hits == {k \in 1..12 : Upper(names[k]) = Upper(p.name)}
        d == DigitsValue(p.day)
        y == DigitsValue(p.year)
    IN  IF hits = {} \/ d = 0 \/ d > 31 \/ y = 0 THEN <<>>
        ELSE LET m == CHOOSE k \in hits : TRUE
             IN  IF d > DaysIn(m, y) THEN <<>> ELSE <<DateNumber(y, m, d)>>

\* main.py:94-106: <<>> for None.  The formats with %#d raise ValueError
\* ('#' is a bad directive), so the first two decide.
parse_date_from_filename(filename) ==
    LET match == Search(DATE_RE, filename, FALSE)
    IN  IF ~match.found THEN <<>>
        ELSE IF strptime(match.group1, MONTHS) # <<>>
        THEN strptime(match.group1, MONTHS)
        ELSE strptime(match.group1, MONTH_ABBRS)

\* href.split('/')[-1]
LastSegment(href) ==
    LET slashes == {k \in 1..Len(href) : Ch(href, k) = "/"}
    IN  IF slashes = {} THEN href
        ELSE SubSeq(href, (CHOOSE k \in slashes : \A j \in slashes : j <= k) + 1, Len(href))

\* urljoin(BASE_URL, href) for a path from the root and for a bare file name.
urljoin(base, href) ==
    IF href # "" /\ Ch(href, 1) = "/" THEN base \o href ELSE base \o "/" \o href

\* The links of the page: the same date in two file names, an abbreviated
\* month in a bare file name, a date in the directory only, a day the month
\* does not have, a date of the next year, and the date datetime.min.
MaxLinks == 3

HrefVocabulary ==
    { "/u/DPI-December-10-2025.pdf",
      "/u/December-10-2025-DPI-AFC.pdf",
      "Daily-Price-Index-Dec-9-2025.pdf",
      "/December-11-2025/DPI.pdf",
      "/u/DPI-February-30-2025.pdf",
      "/u/DPI-January-2-2026.pdf",
      "/u/DPI-January-1-0001.pdf" }

Pages == UNION {[1..n -> HrefVocabulary] : n \in 0..MaxLinks}

\* parse_date_from_filename of each link's file name, evaluated once.
DateTable == [href \in HrefVocabulary |-> parse_date_from_filename(LastSegment(href))]

\* main.py:753-763: the links are found, nothing is selected yet.
InitScrape ==
    /\ NoParse
    /\ NoCall
    /\ frames = <<>>
    /\ scrape \in {[links |-> page, k |-> 0, latest_date |-> DATETIME_MIN,
                    newest_link |-> <<>>, status |-> "links"] : page \in Pages}
    /\ worker = <<>>

\* main.py:765-776: the loop body on the next link.
NextLink(sc) ==
    LET href == sc.links[sc.k + 1]
        f_date == DateTable[href]
    IN  IF f_date # <<>> /\ f_date[1] > sc.latest_date
        THEN [sc EXCEPT !.k = @ + 1, !.latest_date = f_date[1],
                        !.newest_link = <<[href |-> urljoin(BASE_URL, href),
                                           date |-> f_date[1]]>>]
        ELSE [sc EXCEPT !.k = @ + 1]

\* main.py:756-757, 846-848
NoLinks ==
    /\ scrape.status = "links"
    /\ scrape.links = <<>>
    /\ scrape' = [scrape EXCEPT !.status = "not_found"]
    /\ UNCHANGED <<parser_vars, call_vars, frames, worker>>

ScrapeLink ==
    /\ scrape.status = "links"
    /\ scrape.k < Len(scrape.links)
    /\ scrape' = NextLink(scrape)
    /\ UNCHANGED <<parser_vars, call_vars, frames, worker>>

\* main.py:778-779, 866-867
NoDate ==
    /\ scrape.status = "links"
    /\ scrape.links # <<>>
    /\ scrape.k = Len(scrape.links)
    /\ scrape.newest_link = <<>>
    /\ scrape' = [scrape EXCEPT !.status = "not_found"]
    /\ UNCHANGED <<parser_vars, call_vars, frames, worker>>

\* main.py:781-794, 869-878: the selected PDF is downloaded and parsed.
Download ==
    /\ scrape.status = "links"
    /\ scrape.links # <<>>
    /\ scrape.k = Len(scrape.links)
    /\ scrape.newest_link # <<>>
    /\ scrape' = [scrape EXCEPT !.status = "downloaded"]
    /\ UNCHANGED <<parser_vars, call_vars, frames, worker>>

NextScrape == NoLinks \/ ScrapeLink \/ NoDate \/ Download

SpecScrape == InitScrape /\ [][NextScrape]_vars

(***************************************************************************)
(* BudgetWise Scraper Microservice (Worker): the callback of start_worker   *)
(***************************************************************************)

\* The most messages in the request queue, and the bodies a message can
\* have: bytes that are not UTF-8, text that is not JSON, a JSON number, and
\* JSON objects with any of
\* the keys file_content, target_url and filename, the first two empty or
\* not.
MaxMessages == 2

KeyValues ==
    [file_content |-> {"", "JVBERi0="},
     target_url |-> {"", "https://www.da.gov.ph/price-monitoring/"},
     filename |-> {"DPI-December-10-2025.pdf"}]

Objects ==
    UNION {{f \in [ks -> UNION {KeyValues[k] : k \in DOMAIN KeyValues}] :
               \A k \in ks : f[k] \in KeyValues[k]} :
              ks \in SUBSET DOMAIN KeyValues}

Bodies ==
    {[kind |-> "bytes", fields |-> <<>>], [kind |-> "text", fields |-> <<>>],
     [kind |-> "number", fields |-> <<>>]}
        \cup {[kind |-> "object", fields |-> f] : f \in Objects}

Queues == UNION {[1..n -> Bodies] : n \in 1..MaxMessages}

\* worker.py:59-64: json.loads(body.decode()), with the exception it raises
\* when it does not return a value.
json_loads(body) ==
    IF body.kind = "bytes"
    THEN [ok |-> FALSE, error |-> "UnicodeDecodeError", value |-> body]
    ELSE IF body.kind = "text"
    THEN [ok |-> FALSE, error |-> "JSONDecodeError", value |-> body]
    ELSE [ok |-> TRUE, error |-> "", value |-> body]

\* 'key' in request_data and request_data['key']
HasKey(request_data, key) == key \in DOMAIN request_data.fields

Truthy(request_data, key) ==
    HasKey(request_data, key) /\ request_data.fields[key] # ""

\* request_data.get(key): no value, or one.
Get(request_data, key) ==
    IF HasKey(request_data, key) THEN <<request_data.fields[key]>> ELSE <<>>

\* worker.py:71-98: the branch a request takes. A request that is not an
\* object makes the test of line 71 raise.
Branch(request_data) ==
    IF request_data.kind # "object" THEN "raise"
    ELSE IF Truthy(request_data, "file_content") THEN "manual"
    ELSE IF Truthy(request_data, "target_url") THEN "scraping"
    ELSE "invalid"

\* What a parse hands back as result['data'].
ParsedData ==
    {[covered_markets |-> <<>>, price_data |-> <<>>],
     [covered_markets |-> <<"Agora Public Market">>,
      price_data |-> <<[category |-> "FISH PRODUCTS", commodity |-> "Bangus",
                        origin |-> "Local", unit |-> "kg",
                        price |-> <<25000>>]>>]}

\* The results of the two calls into main: no result, a result without
\* data, or a result with data. worker.py is written against a main that
\* defines process_manual_pdf_bytes and whose run_standalone_scraper takes
\* the target URL; the main.py at hand defines neither, so each call is any
\* of the outcomes a call can have, an exception included.
Results ==
    {<<>>, <<[data |-> <<>>]>>} \cup {<<[data |-> <<d>>]>> : d \in ParsedData}

\* worker.py:74-85: an exception of the decoding or of the processing is
\* caught there and leaves result as None.
ManualResults == Results

\* worker.py:92
ScrapeResults == Results

\* worker.py:103: result and result.get('data')
HasData(result) == result # <<>> /\ result[1].data # <<>>

\* worker.py:104-132
Payload(request_data, result) ==
    [status |-> "SUCCESS",
     date_processed |-> "today",
     original_url |-> IF HasKey(request_data, "filename")
                      THEN Get(request_data, "filename")
                      ELSE Get(request_data, "target_url"),
     covered_markets |-> result[1].data[1].covered_markets,
     price_data |-> result[1].data[1].price_data,
     source_type |-> IF HasKey(request_data, "file_content")
                     THEN "MANUAL" ELSE "SCRAPED"]

\* What the channel has been asked to do, in order.
Ack(k) == [op |-> "ack", msg |-> k, mode |-> "", payload |-> <<>>]

Publish(k, mode, payload) ==
    [op |-> "publish", msg |-> k, mode |-> mode, payload |-> <<payload>>]

InitWorker ==
    /\ NoParse
    /\ NoCall
    /\ frames = <<>>
    /\ scrape = <<>>
    /\ worker \in {[queue |-> q, k |-> 0, pc |-> "idle", request_data |-> <<>>,
                    mode |-> "", result |-> <<>>, log |-> <<>>] : q \in Queues}

\* worker.py:159-160: the next message of the queue is handed to callback.
Deliver ==
    /\ worker.pc = "idle"
    /\ worker.k < Len(worker.queue)
    /\ worker' = [worker EXCEPT !.k = @ + 1, !.pc = "parse",
                                !.request_data = <<>>, !.mode = "",
                                !.result = <<>>]
    /\ UNCHANGED <<parser_vars, call_vars, frames, scrape>>

\* worker.py:61-64
InvalidJson ==
    /\ worker.pc = "parse"
    /\ json_loads(worker.queue[worker.k]).error = "JSONDecodeError"
    /\ worker' = [worker EXCEPT !.log = Append(@, Ack(worker.k)),
                                !.pc = "idle"]
    /\ UNCHANGED <<parser_vars, call_vars, frames, scrape>>

\* worker.py:60, 150-152: an exception that is no JSONDecodeError.
DecodeRaises ==
    /\ worker.pc = "parse"
    /\ json_loads(worker.queue[worker.k]).error = "UnicodeDecodeError"
    /\ worker' = [worker EXCEPT !.pc = "ack"]
    /\ UNCHANGED <<parser_vars, call_vars, frames, scrape>>

\* worker.py:60, 66
ParseRequest ==
    /\ worker.pc = "parse"
    /\ json_loads(worker.queue[worker.k]).ok
    /\ worker' = [worker EXCEPT
                    !.request_data = json_loads(worker.queue[worker.k]).value,
                    !.pc = "branch"]
    /\ UNCHANGED <<parser_vars, call_vars, frames, scrape>>

\* worker.py:71, 150-152: the test of a request that is no object raises.
RequestRaises ==
    /\ worker.pc = "branch"
    /\ Branch(worker.request_data) = "raise"
    /\ worker' = [worker EXCEPT !.pc = "ack"]
    /\ UNCHANGED <<parser_vars, call_vars, frames, scrape>>

\* worker.py:71-85
ManualUpload ==
    /\ worker.pc = "branch"
    /\ Branch(worker.request_data) = "manual"
    /\ \E result \in ManualResults :
          worker' = [worker EXCEPT !.mode = "manual", !.result = result,
                                   !.pc = "result"]
    /\ UNCHANGED <<parser_vars, call_vars, frames, scrape>>

\* worker.py:88-92
WebScraping ==
    /\ worker.pc = "branch"
    /\ Branch(worker.request_data) = "scraping"
    /\ \E result \in ScrapeResults :
          worker' = [worker EXCEPT !.mode = "scraping", !.result = result,
                                   !.pc = "result"]
    /\ UNCHANGED <<parser_vars, call_vars, frames, scrape>>

\* worker.py:92, 150-152: the call of the scraper raises.
ScraperRaises ==
    /\ worker.pc = "branch"
    /\ Branch(worker.request_data) = "scraping"
    /\ worker' = [worker EXCEPT !.mode = "scraping", !.pc = "ack"]
    /\ UNCHANGED <<parser_vars, call_vars, frames, scrape>>

\* A variant of InvalidPayload without the return: the callback goes on to
\* the acknowledgement of its last line.
InvalidPayload_NoReturn ==
    /\ worker.pc = "branch"
    /\ Branch(worker.request_data) = "invalid"
    /\ worker' = [worker EXCEPT !.log = Append(@, Ack(worker.k)),
                                !.pc = "ack"]
    /\ UNCHANGED <<parser_vars, call_vars, frames, scrape>>

\* worker.py:95-98
InvalidPayload ==
    /\ worker.pc = "branch"
    /\ Branch(worker.request_data) = "invalid"
    /\ worker' = [worker EXCEPT !.log = Append(@, Ack(worker.k)),
                                !.pc = "idle"]
    /\ UNCHANGED <<parser_vars, call_vars, frames, scrape>>

\* worker.py:103-145
PublishResult ==
    /\ worker.pc = "result"
    /\ HasData(worker.result)
    /\ worker' = [worker EXCEPT
                    !.log = Append(@, Publish(worker.k, worker.mode,
                                Payload(worker.request_data, worker.result))),
                    !.pc = "ack"]
    /\ UNCHANGED <<parser_vars, call_vars, frames, scrape>>

\* worker.py:103-144, 150-152: the conversion, json.dumps or the publish
\* raises, and nothing is published.
PublishRaises ==
    /\ worker.pc = "result"
    /\ HasData(worker.result)
    /\ worker' = [worker EXCEPT !.pc = "ack"]
    /\ UNCHANGED <<parser_vars, call_vars, frames, scrape>>

\* worker.py:147-148
EmptyResult ==
    /\ worker.pc = "result"
    /\ ~HasData(worker.result)
    /\ worker' = [worker EXCEPT !.pc = "ack"]
    /\ UNCHANGED <<parser_vars, call_vars, frames, scrape>>

\* worker.py:154-156
Acknowledge ==
    /\ worker.pc = "ack"
    /\ worker' = [worker EXCEPT !.log = Append(@, Ack(worker.k)),
                                !.pc = "idle"]
    /\ UNCHANGED <<parser_vars, call_vars, frames, scrape>>

NextWorker ==
    \/ Deliver
    \/ InvalidJson
    \/ DecodeRaises
    \/ ParseRequest
    \/ RequestRaises
    \/ ManualUpload
    \/ WebScraping
    \/ ScraperRaises
    \/ InvalidPayload
    \/ PublishResult
    \/ PublishRaises
    \/ EmptyResult
    \/ Acknowledge

SpecWorker == InitWorker /\ [][NextWorker]_vars

(***************************************************************************)
(* Properties of the parser (under Spec)                                   *)
(*                                                                         *)
(* Prices are in centavos: 250.00 is <<25000>>, an absent price is <<>>.   *)
(***************************************************************************)

\* C1: every record parse_text_to_json has emitted has a commodity name
\* longer than 2 characters and a present, non-negative price.
C1_RecordsHaveNameAndPrice ==
    \A k \in 1..Len(price_data_list) :
        /\ Len(price_data_list[k].commodity) > 2
        /\ price_data_list[k].price # <<>>
        /\ price_data_list[k].price[1] >= 0

\* C1: a document whose price-terminated lines give a one-letter name, an
\* absent price and a valid row has been parsed, and one record was emitted.
C1_Witness ==
    /\ returned
    /\ lines = <<"FISH PRODUCTS", "(a) 5.00", "Tilapia n/a", "Chicken Egg Medium 8.50">>
    /\ Len(price_data_list) = 1

\* C2: a pagination-marker line leaves both buffers empty, whatever they
\* held before (so text buffered before it is in no later record).
C2_PageMarkerEmptiesBuffers ==
    [][(InLoop /\ LineKind(Scanned(Line), current_category) = "page")
          => (commodity_buffer' = <<>> /\ specification_buffer' = <<>>)]_vars

\* C3: a line containing a known category label appends no record, sets
\* current_category to a label the line contains, and leaves both buffers
\* empty.
C3_CategoryLineResets ==
    [][LET u == Upper(Strip(Line))
           labels == {KNOWN_CATEGORIES[k] : k \in 1..Len(KNOWN_CATEGORIES)}
       IN  (InLoop /\ \E c \in labels : Contains(u, c))
             => /\ price_data_list' = price_data_list
                /\ current_category' \in {c \in labels : Contains(u, c)}
                /\ commodity_buffer' = <<>>
                /\ specification_buffer' = <<>>]_vars

\* C3: a category line has been read while a commodity was buffered.
C3_Witness ==
    /\ Len(lines) >= 3
    /\ SubSeq(lines, 1, 3) = <<"FISH PRODUCTS", "Bangus", "Poultry Products">>
    /\ i = 3
    /\ current_category = "POULTRY PRODUCTS"
    /\ commodity_buffer = <<>>
    /\ price_data_list = <<>>

\* C4: a line that reaches the price branch with the placeholder n/a as its
\* price token appends no record and leaves both buffers empty.
C4_AbsentPriceGivesNoRecord ==
    [][(InLoop /\ LineKind(Scanned(Line), current_category) = "price"
          /\ Scanned(Line).row.price_str = "n/a")
          => /\ price_data_list' = price_data_list
             /\ commodity_buffer' = <<>>
             /\ specification_buffer' = <<>>]_vars

\* C4: an n/a line has been read while a commodity was buffered.
C4_Witness ==
    /\ Len(lines) >= 3
    /\ SubSeq(lines, 1, 3) = <<"FISH PRODUCTS", "Bangus", "Tilapia n/a">>
    /\ i = 3
    /\ price_data_list = <<>>
    /\ commodity_buffer = <<>>

\* C5: the lines "FISH PRODUCTS", "Bangus", "Large ... 250.00" give exactly
\* one record, of commodity "Bangus Large", origin Local, unit kg, price
\* 250.00.
C5_BufferedNameWithSize ==
    (returned /\ lines = <<"FISH PRODUCTS", "Bangus", "Large                      250.00">>)
      => price_data_list =
           << [category |-> "FISH PRODUCTS", commodity |-> "Bangus Large",
               origin |-> "Local", unit |-> "kg", price |-> <<25000>>] >>

\* C6: under POULTRY PRODUCTS the line "Chicken Egg Medium 8.50" read with
\* empty buffers appends one record, of commodity "Chicken Egg", unit "pc"
\* and price 8.50; and every record appended under that category whose
\* commodity text contains the egg keyword is named "Chicken Egg", of unit
\* "pc".
C6_EggUnderPoultry ==
    [][(InLoop /\ LineKind(Scanned(Line), current_category) = "price"
          /\ current_category = "POULTRY PRODUCTS")
          => LET text == full_commodity(Scanned(Line).row.line_content_clean,
                                        commodity_buffer)
                 new == SubSeq(price_data_list', Len(price_data_list) + 1,
                               Len(price_data_list'))
             IN  /\ Contains(Upper(text), "EGG")
                      => \A k \in 1..Len(new) :
                             new[k].commodity = "Chicken Egg" /\ new[k].unit = "pc"
                 /\ (Strip(Line) = "Chicken Egg Medium 8.50" /\ commodity_buffer = <<>>)
                      => new = << [category |-> "POULTRY PRODUCTS",
                                   commodity |-> "Chicken Egg", origin |-> "Local",
                                   unit |-> "pc", price |-> <<850>>] >>]_vars

\* C6: the egg line has been read under POULTRY PRODUCTS with empty buffers.
C6_Witness ==
    /\ Len(lines) >= 2
    /\ SubSeq(lines, 1, 2) = <<"Poultry Products", "Chicken Egg Medium 8.50">>
    /\ i = 2
    /\ Len(price_data_list) = 1
    /\ price_data_list[1].commodity = "Chicken Egg"

\* C7, as stated: for every split of the parsed document into two
\* single-category documents A and B, the records are those of A in
\* isolation followed by those of B in isolation.
C7_ConcatenationAsStated ==
    returned =>
        \A k \in 1..(Len(lines) - 1) :
            LET A == SubSeq(lines, 1, k)
                B == SubSeq(lines, k + 1, Len(lines))
                Headers(doc) ==
                    {j \in 1..Len(doc) : CategoryIndex(Strip(doc[j])) # 0}
            IN  (Cardinality(Headers(A)) = 1 /\ Cardinality(Headers(B)) = 1)
                  => price_data_list = price_data(A) \o price_data(B)

\* C7, amended: the same, provided no line of B before its category header
\* is one the price branch would take.
C7_ConcatenationOfDocuments ==
    returned =>
        \A k \in 1..(Len(lines) - 1) :
            LET A == SubSeq(lines, 1, k)
                B == SubSeq(lines, k + 1, Len(lines))
                Headers(doc) ==
                    {j \in 1..Len(doc) : CategoryIndex(Strip(doc[j])) # 0}
                PriceBefore(doc) ==
                    \E j \in 1..Len(doc) :
                        /\ \A h \in Headers(doc) : j < h
                        /\ LineKind(Scanned(doc[j]), "") = "price"
            IN  (Cardinality(Headers(A)) = 1 /\ Cardinality(Headers(B)) = 1
                   /\ ~PriceBefore(B))
                  => price_data_list = price_data(A) \o price_data(B)

\* C7: a document has been parsed whose first part ends with a buffered
\* commodity and whose second part gives a record.
C7_Witness ==
    /\ returned
    /\ lines = <<"FISH PRODUCTS", "Bangus", "Poultry Products",
                 "Chicken Egg Medium 8.50">>
    /\ price_data(<<"FISH PRODUCTS", "Bangus">>) = <<>>
    /\ price_data_list = price_data(<<"Poultry Products", "Chicken Egg Medium 8.50">>)
    /\ Len(price_data_list) = 1

\* C19 (under SpecFair): every iteration of the loop, whichever branch it
\* takes, moves the index forward by exactly one and leaves the lines as
\* they are; as long as the function has not returned it has a step to take
\* (there is no state it is stuck in without a result); it returns only
\* once the index has passed the last line; and for every document it
\* returns in the end.
C19_LoopTerminates ==
    /\ [][InLoop => (i' = i + 1 /\ lines' = lines)]_vars
    /\ [](~returned => ENABLED Next)
    /\ [](returned => i = Len(lines))
    /\ <>returned

\* C19: a document with a category line, a continuation and a price line
\* has been read to its end, and the function has returned.
C19_Witness ==
    /\ returned
    /\ lines = <<"FISH PRODUCTS", "Bangus", "Large                      250.00">>
    /\ i = 3

\* C20: while current_category is UNKNOWN, a step over a line that holds no
\* category label leaves the records, both buffers and the category as they
\* are; so, as long as no category line has been read, there is no record
\* and both buffers are empty, the first category line included.
C20_UnknownDiscardsLines ==
    /\ [][(InLoop /\ current_category = UNKNOWN
                  /\ CategoryIndex(Strip(Line)) = 0)
            => /\ price_data_list' = price_data_list
               /\ commodity_buffer' = commodity_buffer
               /\ specification_buffer' = specification_buffer
               /\ current_category' = UNKNOWN]_vars
    /\ [](current_category = UNKNOWN
            => /\ price_data_list = <<>>
               /\ commodity_buffer = <<>>
               /\ specification_buffer = <<>>)

\* C20: a continuation line and a price line were read before any category
\* line, and the first category line has just been read.
C20_Witness ==
    /\ lines = <<"Bangus", "Large                      250.00", "FISH PRODUCTS">>
    /\ i = 3
    /\ current_category = "FISH PRODUCTS"
    /\ price_data_list = <<>>
    /\ commodity_buffer = <<>>
    /\ specification_buffer = <<>>

\* C29: a step appends one record at most, and only over a line that ends in
\* a price; the records already in the list stay as they are, in their
\* places, and a new record goes last with the price of the line just read;
\* so there are never more records than price-terminated lines read so far.
C29_RecordsAppendInLineOrder ==
    /\ [][/\ Len(price_data_list') <= Len(price_data_list) + 1
          /\ SubSeq(price_data_list', 1, Len(price_data_list)) = price_data_list
          /\ price_data_list' # price_data_list
                => /\ InLoop
                   /\ Scanned(Line).has_price
                   /\ price_data_list'[Len(price_data_list')].price
                        = final_price(Scanned(Line).row.price_str)]_vars
    /\ [](Len(price_data_list)
            <= Cardinality({k \in 1..i : Scanned(lines[k]).has_price}))

\* C29: two price-terminated lines have each appended a record, a third one
\* (with no price value) has appended none, and the records stand in the
\* order of their lines.
C29_Witness ==
    /\ lines = <<"FISH PRODUCTS", "Large                      250.00",
                 "Tilapia n/a", "Chicken Egg Medium 8.50">>
    /\ returned
    /\ Len(price_data_list) = 2
    /\ price_data_list[1].price = <<25000>>
    /\ price_data_list[2].price = <<850>>

\* The step leaves the category, both buffers and the records as they are.
KeepsLoopState ==
    /\ current_category' = current_category
    /\ commodity_buffer' = commodity_buffer
    /\ specification_buffer' = specification_buffer
    /\ price_data_list' = price_data_list

\* C30, as stated: a blank line, a boilerplate line without a category
\* label, and any line read while current_category is UNKNOWN leave the
\* category, both buffers and the records as they are.
C30_DiscardedLinesAsStated ==
    [][(/\ InLoop
        /\ \/ Scanned(Line).line = ""
           \/ Scanned(Line).is_header /\ Scanned(Line).category_index = 0
           \/ current_category = UNKNOWN)
          => KeepsLoopState]_vars

\* C30: a blank line, a boilerplate line without a category label, and a
\* line without a category label read while current_category is UNKNOWN
\* leave the category, both buffers and the records as they are.
C30_DiscardedLinesKeepState ==
    [][(/\ InLoop
        /\ Scanned(Line).category_index = 0
        /\ \/ Scanned(Line).line = ""
           \/ Scanned(Line).is_header
           \/ current_category = UNKNOWN)
          => KeepsLoopState]_vars

\* C30: a price-terminated line was read while the category was UNKNOWN, and
\* a blank line and a boilerplate line were read with a commodity in the
\* buffer, which is still there.
C30_Witness ==
    /\ lines = <<"Large                      250.00", "FISH PRODUCTS",
                 "Bangus", "Source: DA">>
    /\ i = 4
    /\ current_category = "FISH PRODUCTS"
    /\ commodity_buffer = <<"Bangus">>
    /\ specification_buffer = <<>>
    /\ price_data_list = <<>>

(***************************************************************************)
(* Properties of the normalizer (under SpecNormalize)                      *)
(***************************************************************************)

\* C8: under OTHER BASIC COMMODITIES a cooking-oil text with a generic
\* oil-type keyword (COCONUT, PALM OLEIN) and a named-brand keyword (MINOLA,
\* SPRING, JOLLY) is named after a named brand it contains.
C8_NamedBrandWins ==
    LET u == Upper(arg_text)
        named == {b \in {<<"MINOLA", "Minola">>, <<"SPRING", "Spring">>,
                         <<"JOLLY", "Palm Olein (Jolly)">>} : Contains(u, b[1])}
    IN  (/\ calls = 1
         /\ arg_category = "OTHER BASIC COMMODITIES"
         /\ Contains(u, "COOKING OIL")
         /\ (Contains(u, "COCONUT") \/ Contains(u, "PALM OLEIN"))
         /\ named # {})
          => result_text \in {"Cooking Oil (" \o b[2] \o ")" : b \in named}

\* C9, as stated: under the beef category every text containing "rib eye"
\* is named "Beef Rib Eye", and a text with "strip" and "loin" is never
\* named "Beef Loin".
C9_RibEyeAsStated ==
    LET u == Upper(arg_text)
    IN  (calls = 1 /\ arg_category = "BEEF MEAT PRODUCTS")
          => /\ Contains(u, "RIB EYE") => result_text = "Beef Rib Eye"
             /\ (Contains(u, "STRIP") /\ Contains(u, "LOIN"))
                  => result_text # "Beef Loin"

\* C9, amended: under the beef category a text containing "rib eye" is never
\* named "Beef Ribs", and is named "Beef Rib Eye" unless a rule tested
\* earlier (tenderloin, strip with loin, sirloin, short rib) matches it; a
\* text with "strip" and "loin" is never named "Beef Loin".
C9_RibEyeBeforeRibs ==
    LET u == Upper(arg_text)
        earlier == \/ Contains(u, "TENDERLOIN")
                   \/ (Contains(u, "STRIP") /\ Contains(u, "LOIN"))
                   \/ Contains(u, "SIRLOIN")
                   \/ Contains(u, "SHORT RIB")
    IN  (calls = 1 /\ arg_category = "BEEF MEAT PRODUCTS")
          => /\ Contains(u, "RIB EYE") => result_text # "Beef Ribs"
             /\ (Contains(u, "RIB EYE") /\ ~earlier) => result_text = "Beef Rib Eye"
             /\ (Contains(u, "STRIP") /\ Contains(u, "LOIN"))
                  => result_text # "Beef Loin"

\* C9: a beef text with "rib eye" and the generic "ribs" has been named.
C9_Witness ==
    /\ calls = 1
    /\ arg_category = "BEEF MEAT PRODUCTS"
    /\ arg_text = "Ribs Rib Eye"
    /\ result_text = "Beef Rib Eye"

(***************************************************************************)
(* Properties of the sanitizer (under SpecSanitize)                        *)
(***************************************************************************)

\* C10: sanitizing a sanitized text changes nothing:
\* sanitize(sanitize(s)) = sanitize(s).
C10_SanitizeIdempotent ==
    calls >= 2 => result_text = sanitize(arg_text)

\* C10: a text with a control character and a space has been sanitized
\* twice.
C10_Witness ==
    /\ calls = 2
    /\ arg_text = "a" \o DEL \o " a"
    /\ result_text = "a a"

(***************************************************************************)
(* Properties of the price branch (under SpecRows)                         *)
(***************************************************************************)

\* C11: a line that the loop takes as price-terminated (a category is set,
\* and the line is not blank, a category line, a page indicator or a
\* header/footer line) leaves both buffers empty, whether a row is saved,
\* the price is n/a, the content is a header row, the content is too short
\* or the name is a header word.
C11_PriceLineEmptiesBuffers ==
    [][(InLoop /\ LineKind(Scanned(Line), current_category) = "price")
          => (commodity_buffer' = <<>> /\ specification_buffer' = <<>>)]_vars

\* C11: with a header word and a specification buffered, a price line has
\* been read that saves no row (the name is the header word), and both
\* buffers are empty.
C11_Witness ==
    /\ lines = <<"FISH PRODUCTS", "Price", "Bangus", "Large 250.00">>
    /\ i = 4
    /\ price_data_list = <<>>
    /\ commodity_buffer = <<>>
    /\ specification_buffer = <<>>

\* C18: no record has a commodity name that, in upper case, is one of the
\* header words and phrases PREVAILING, PRICE, UNIT, COMMODITY,
\* SPECIFICATION, PAGE, RETAIL, RETAIL PRICE PER, PREVAILING RETAIL, PRICE
\* PER UNIT, or that holds two or more of the keywords RETAIL, PRICE, PER,
\* UNIT, PREVAILING; also when a continuation line has buffered header text
\* before the price line.
C18_NoHeaderWordAsName ==
    \A k \in 1..Len(price_data_list) :
        LET u == Upper(price_data_list[k].commodity)
        IN  /\ u \notin {"PREVAILING", "PRICE", "UNIT", "COMMODITY", "SPECIFICATION",
                          "PAGE", "RETAIL", "RETAIL PRICE PER", "PREVAILING RETAIL",
                          "PRICE PER UNIT"}
            /\ Cardinality({kw \in {"RETAIL", "PRICE", "PER", "UNIT", "PREVAILING"} :
                               Contains(u, kw)}) < 2

\* C18: a price line has been read after a continuation line had buffered
\* two header keywords as the commodity, and no record was appended.
C18_Witness ==
    /\ Len(lines) >= 3
    /\ SubSeq(lines, 1, 3) = <<"FISH PRODUCTS", "Retail Price", "Large 250.00">>
    /\ i = 3
    /\ price_data_list = <<>>


\* A line that is a continuation under a set category: not blank, without a
\* category label, no page indicator, no header/footer line, no price at
\* its end.
IsContinuationLine(raw) ==
    /\ Strip(raw) # ""
    /\ Scanned(raw).category_index = 0
    /\ ~Scanned(raw).is_page
    /\ ~Scanned(raw).is_header
    /\ ~Scanned(raw).has_price

\* C21: under a set category a continuation line goes to the commodity
\* buffer when that buffer is empty and to the end of the specification
\* buffer otherwise, the other buffer staying as it is; so after a category
\* line and a run of continuation lines the commodity buffer holds the
\* first line of the run and the specification buffer the later ones, in
\* the order of the lines.
C21_ContinuationFillsBuffers ==
    /\ [][(InLoop /\ current_category # UNKNOWN /\ IsContinuationLine(Line))
            => IF commodity_buffer = <<>>
               THEN /\ commodity_buffer' = <<Strip(Line)>>
                    /\ specification_buffer' = specification_buffer
               ELSE /\ commodity_buffer' = commodity_buffer
                    /\ specification_buffer' = Append(specification_buffer, Strip(Line))]_vars
    /\ [](\A j \in 2..i :
             (/\ Scanned(lines[j - 1]).category_index # 0
              /\ \A k \in j..i : IsContinuationLine(lines[k]))
             => /\ commodity_buffer = <<Strip(lines[j])>>
                /\ specification_buffer = [k \in 1..(i - j) |-> Strip(lines[j + k])])

\* C21: three continuation lines in a row have been read after a category
\* line.
C21_Witness ==
    /\ lines = <<"FISH PRODUCTS", "Bangus", "Price", "Retail Price">>
    /\ i = 4
    /\ commodity_buffer = <<"Bangus">>
    /\ specification_buffer = <<"Price", "Retail Price">>



\* C27: the commodity buffer holds one line at most, and the specification
\* buffer holds a line only while the commodity buffer holds one.
C27_BufferShape ==
    /\ Len(commodity_buffer) <= 1
    /\ specification_buffer # <<>> => commodity_buffer # <<>>

\* C27: two continuation lines have been read after a category line, one
\* into each buffer.
C27_Witness ==
    /\ lines = <<"FISH PRODUCTS", "Bangus", "Price">>
    /\ i = 3
    /\ commodity_buffer = <<"Bangus">>
    /\ specification_buffer = <<"Price">>

(***************************************************************************)
(* Properties of the tests on a line's words (under SpecTokens)            *)
(***************************************************************************)

\* How many of the column-header words the stripped line holds.
HeaderWordCount(raw) ==
    CountIn(<<"COMMODITY", "SPECIFICATION", "PREVAILING", "RETAIL", "PRICE", "UNIT">>,
            Strip(raw))

\* C22: a line without a category label that holds two or more of the
\* column-header words is not appended to the commodity buffer, not
\* appended to the specification buffer, and adds no record.
C22_HeaderWordLinesDiscarded ==
    [][(InLoop /\ Scanned(Line).category_index = 0 /\ HeaderWordCount(Line) >= 2)
          => /\ commodity_buffer' # Append(commodity_buffer, Strip(Line))
             /\ specification_buffer' # Append(specification_buffer, Strip(Line))
             /\ price_data_list' = price_data_list]_vars


\* The last word of a stripped line, and the price token as a whole word:
\* a thousands-grouped decimal with two fraction digits, or n/a.
LastWord(line) ==
    LET gaps == {k \in 1..Len(line) : Ch(line, k) \in Whitespace}
    IN  IF gaps = {} THEN line
        ELSE SubSeq(line, (CHOOSE k \in gaps : \A j \in gaps : j <= k) + 1, Len(line))

PRICE_TOKEN_RE ==
    Cat(<<Alt(<<Cat(<<Rep13(Digit), Star(Cat(<<Lit(","), Rep3(Digit)>>)),
                      Lit("."), Rep2(Digit)>>),
                Lit("n/a")>>),
          EndOfText>>)

EndsInPriceToken(raw) ==
    LET m == Search(PRICE_TOKEN_RE, LastWord(Strip(raw)), FALSE)
    IN  m.found /\ m.start = 1

\* C23: under a set category, a line without a category label that is no
\* page indicator and no header/footer line, and whose last word is a price
\* token, is taken as price-terminated: it leaves both buffers empty and is
\* appended to neither, also when the price token is the whole line.
C23_PriceTokenClosesRecord ==
    [][(/\ InLoop
        /\ current_category # UNKNOWN
        /\ Strip(Line) # ""
        /\ Scanned(Line).category_index = 0
        /\ ~Scanned(Line).is_page
        /\ ~Scanned(Line).is_header
        /\ EndsInPriceToken(Line))
          => (commodity_buffer' = <<>> /\ specification_buffer' = <<>>)]_vars


\* A number of cents written as a thousands-grouped decimal with two
\* fraction digits: 123450 is written 1,234.50.
RECURSIVE Grouped(_)
Grouped(n) ==
    IF n < 1000
    THEN (IF n >= 100 THEN Ch("0123456789", (n \div 100) + 1) ELSE "")
           \o (IF n >= 10 THEN Ch("0123456789", ((n \div 10) % 10) + 1) ELSE "")
           \o Ch("0123456789", (n % 10) + 1)
    ELSE Grouped(n \div 1000) \o ","
           \o Ch("0123456789", ((n \div 100) % 10) + 1)
           \o Ch("0123456789", ((n \div 10) % 10) + 1)
           \o Ch("0123456789", (n % 10) + 1)

WrittenCents(c) ==
    Grouped(c \div 100) \o "." \o Ch("0123456789", ((c \div 10) % 10) + 1)
        \o Ch("0123456789", (c % 10) + 1)

\* C25: a step that appends a record appends one whose price is a number,
\* and that number, written with thousands separators and two fraction
\* digits, is the last word of the line just read; whatever the buffers and
\* the category are.
C25_PriceIsTokenValue ==
    [][(InLoop /\ price_data_list' # price_data_list)
          => /\ Len(price_data_list') = Len(price_data_list) + 1
             /\ price_data_list'[Len(price_data_list')].price # <<>>
             /\ WrittenCents(price_data_list'[Len(price_data_list')].price[1])
                    = LastWord(Strip(Line))]_vars

\* C25: with a commodity buffered under the poultry category, a line whose
\* price has a thousands separator has been read.
C25_Witness ==
    /\ lines = <<"Poultry Products", "Bangus", "Lean 1,234.50">>
    /\ i = 3
    /\ Len(price_data_list) = 1
    /\ price_data_list[1].price = <<123450>>


(***************************************************************************)
(* Properties of the origin and the category of a row (under SpecOrigin)   *)
(***************************************************************************)

\* C12: every record a price-terminated line appends has origin "Imported"
\* if the word Imported is in a buffered continuation line, in the
\* price-terminated line or in current_category, and "Local" otherwise.
C12_OriginFromRawText ==
    [][(InLoop /\ LineKind(Scanned(Line), current_category) = "price")
          => LET raw_text == Join(commodity_buffer \o specification_buffer
                                    \o <<Strip(Line)>>, " ")
                 new == SubSeq(price_data_list', Len(price_data_list) + 1,
                               Len(price_data_list'))
             IN  \A k \in 1..Len(new) :
                     new[k].origin =
                         IF Contains(Upper(raw_text), "IMPORTED")
                              \/ Contains(current_category, "IMPORTED")
                         THEN "Imported" ELSE "Local"]_vars

\* C13: every record appended under a rice category has the category
\* "COMMERCIAL RICE", every other record has the category label itself, and
\* every record appended under "IMPORTED COMMERCIAL RICE" has origin
\* "Imported".
C13_QualifierLeavesCategory ==
    [][(InLoop /\ LineKind(Scanned(Line), current_category) = "price")
          => LET new == SubSeq(price_data_list', Len(price_data_list) + 1,
                               Len(price_data_list'))
                 rice == {"IMPORTED COMMERCIAL RICE", "LOCAL COMMERCIAL RICE"}
             IN  \A k \in 1..Len(new) :
                     /\ new[k].category =
                            IF current_category \in rice THEN "COMMERCIAL RICE"
                            ELSE current_category
                     /\ current_category = "IMPORTED COMMERCIAL RICE"
                          => new[k].origin = "Imported"]_vars

\* C13: a document has been parsed that gives the same row under each rice
\* category: both records have the category "COMMERCIAL RICE", the first is
\* Imported and the second Local.
C13_Witness ==
    /\ returned
    /\ lines = <<"IMPORTED COMMERCIAL RICE", "Well Milled 45.00",
                 "LOCAL COMMERCIAL RICE", "Well Milled 45.00">>
    /\ Len(price_data_list) = 2
    /\ price_data_list[1].category = "COMMERCIAL RICE"
    /\ price_data_list[1].origin = "Imported"
    /\ price_data_list[2].category = "COMMERCIAL RICE"
    /\ price_data_list[2].origin = "Local"

(***************************************************************************)
(* Properties of the unit extraction (under SpecUnit)                      *)
(***************************************************************************)

\* C14: extract_unit_from_spec returns a unit for every specification and
\* name: "pc" when the name holds CHICKEN and EGG, also when it holds
\* COOKING OIL; otherwise a volume unit ("350 ml", "500 ml", "1 L", "L")
\* when the name holds COOKING OIL, and only then; and "kg" in every other
\* case.
C14_UnitByPriority ==
    LET u == Upper(arg_name)
        egg == Contains(u, "CHICKEN") /\ Contains(u, "EGG")
        oil == Contains(u, "COOKING OIL")
        volume == {"350 ml", "500 ml", "1 L", "L"}
    IN  calls = 1
          => /\ result_text \in {"pc", "kg"} \cup volume
             /\ egg => result_text = "pc"
             /\ result_text \in volume => oil
             /\ (oil /\ ~egg) => result_text \in volume
             /\ (~egg /\ ~oil) => result_text = "kg"

\* C14: the unit of a name that holds the chicken egg and the cooking oil
\* has been extracted from a specification with a volume.
C14_Witness ==
    /\ calls = 1
    /\ arg_name = "Chicken Egg Cooking Oil"
    /\ arg_text = "350 ml"
    /\ result_text = "pc"


\* Whether a text of words separated by single spaces holds the word w.
HasWord(text, w) ==
    \/ text = w
    \/ (Len(text) > Len(w) /\ SubSeq(text, 1, Len(w) + 1) = w \o " ")
    \/ (Len(text) > Len(w) /\ SubSeq(text, Len(text) - Len(w), Len(text)) = " " \o w)
    \/ Contains(text, " " \o w \o " ")

\* C24: for a name that holds COOKING OIL (and not the chicken egg), the
\* unit is one of 350 ml, 500 ml, 1 L and L; it is 350 ml only when the
\* specification has the number 350, 500 ml only when it has the number
\* 500, 1 L only when it has the number 1 or 1000; a specification with
\* another number (1500, 10, 2) and none of these has the unit L.
C24_OilVolumeFromMarker ==
    LET u == Upper(arg_name)
        oil == Contains(u, "COOKING OIL") /\ ~(Contains(u, "CHICKEN") /\ Contains(u, "EGG"))
    IN  (calls = 1 /\ oil)
          => /\ result_text \in {"350 ml", "500 ml", "1 L", "L"}
             /\ result_text = "350 ml" => HasWord(arg_text, "350")
             /\ result_text = "500 ml" => HasWord(arg_text, "500")
             /\ result_text = "1 L" => (HasWord(arg_text, "1") \/ HasWord(arg_text, "1000"))

(***************************************************************************)
(* Properties of the covered markets (under SpecMarkets)                   *)
(***************************************************************************)

\* C15: market_list, as extracted before the loop, holds no entry twice;
\* its entries are the items of the numbered list that are kept (longer
\* than 3 characters, line breaks read as spaces, ends trimmed), in the
\* order of their first occurrence in the list; when no line of the text
\* holds a label of a list it is empty; the loop leaves it as extracted; and
\* the records returned are those of the loop over the lines, with or
\* without a list.
C15_MarketsOnceInOrder ==
    /\ LET items == CleanMarkets(raw_markets)
           First(m) == CHOOSE a \in 1..Len(items) :
                           items[a] = m /\ \A b \in 1..(a - 1) : items[b] # m
           labelled == \E k \in 1..Len(lines) :
                           \/ Contains(Upper(lines[k]), "D)")
                           \/ Contains(Upper(lines[k]), "COVERED MARKETS:")
       IN  /\ \A a, b \in 1..Len(market_list) :
                  a # b => market_list[a] # market_list[b]
           /\ {market_list[a] : a \in 1..Len(market_list)}
                = {items[a] : a \in 1..Len(items)}
           /\ \A a, b \in 1..Len(market_list) :
                  a < b => First(market_list[a]) < First(market_list[b])
           /\ ~labelled => market_list = <<>>
    /\ [][market_list' = market_list]_vars
    /\ [](returned => price_data_list = price_data(lines))

\* C15: a document with a record and a list whose first item comes again
\* after the second has been parsed: the item is in market_list once,
\* before the second, and the record is returned.
C15_Witness ==
    /\ returned
    /\ lines = <<"FISH PRODUCTS", "Large 250.00", "d) 1. Pasig 2. Agora 3. Pasig">>
    /\ market_list = <<"Pasig", "Agora">>
    /\ Len(price_data_list) = 1

\* C16: every entry of market_list is at least 4 characters long.
C16_MarketsAtLeastFourChars ==
    \A k \in 1..Len(market_list) : Len(market_list[k]) >= 4

(***************************************************************************)
(* Properties of concurrent invocations (under SpecConcurrent)             *)
(***************************************************************************)

\* C17: whatever the order of the steps of two invocations, an invocation
\* that has returned returns the records and the markets it returns when
\* its document is parsed alone, and a step changes the locals of one
\* invocation only.
C17_InvocationsAreIndependent ==
    /\ [](\A p \in Invocations :
             frames[p].returned
               => /\ frames[p].price_data_list = price_data(frames[p].lines)
                  /\ frames[p].market_list
                       = MarketsOf(RawMarkets(frames[p].lines)))
    /\ [][\E p \in Invocations :
             \A q \in Invocations \ {p} : frames'[q] = frames[q]]_vars

\* C17: invocation 2 has read a price line while invocation 1, which
\* started first, held a buffered commodity and had not finished; both have
\* since returned, each with one record of its own.
C17_Witness ==
    /\ frames[1].lines = <<"FISH PRODUCTS", "Bangus", "Large 250.00">>
    /\ frames[2].lines = <<"FISH PRODUCTS", "Large 250.00">>
    /\ frames[1].i = 2
    /\ frames[1].commodity_buffer = <<"Bangus">>
    /\ frames[2].i = 2
    /\ Len(frames[2].price_data_list) = 1
    /\ frames[2].price_data_list[1].commodity = "Large"


(***************************************************************************)
(* Properties of the newest PDF link (under SpecScrape)                    *)
(***************************************************************************)

\* C26: when the scrape has ended, and some link's file name has a date
\* that parses, the PDF downloaded is the one of the link with the latest
\* such date, the first in page order among the links of that date; and
\* when no link's file name has a date that parses (or the page has no
\* link), nothing is selected and nothing is downloaded.
C26_NewestLinkSelected ==
    scrape.status \in {"not_found", "downloaded"}
      => LET links == scrape.links
             dated == {k \in 1..Len(links) : DateTable[links[k]] # <<>>}
         IN  IF dated = {}
             THEN scrape.status = "not_found" /\ scrape.newest_link = <<>>
             ELSE LET best == CHOOSE k \in dated :
                                  /\ \A j \in dated : DateTable[links[j]][1] <= DateTable[links[k]][1]
                                  /\ \A j \in dated : j < k => DateTable[links[j]][1] < DateTable[links[k]][1]
                  IN  /\ scrape.status = "downloaded"
                      /\ scrape.newest_link = <<[href |-> urljoin(BASE_URL, links[best]),
                                                 date |-> DateTable[links[best]][1]]>>

(***************************************************************************)
(* Properties of the category test (under SpecLabels)                      *)
(***************************************************************************)

\* C28: current_category is always UNKNOWN or one of the 13 labels of
\* KNOWN_CATEGORIES; no step takes it from a label back to UNKNOWN; and a
\* line that holds labels sets it to the one that comes first in
\* KNOWN_CATEGORIES, wherever the labels stand in the line.
C28_CategoryFromLabels ==
    /\ [](/\ Len(KNOWN_CATEGORIES) = 13
          /\ \/ current_category = UNKNOWN
             \/ \E k \in 1..Len(KNOWN_CATEGORIES) : current_category = KNOWN_CATEGORIES[k])
    /\ [][current_category # UNKNOWN => current_category' # UNKNOWN]_vars
    /\ [][InLoop
            => \A k \in 1..Len(KNOWN_CATEGORIES) :
                   (/\ Contains(Upper(Strip(Line)), KNOWN_CATEGORIES[k])
                    /\ \A j \in 1..(k - 1) :
                           ~Contains(Upper(Strip(Line)), KNOWN_CATEGORIES[j]))
                   => current_category' = KNOWN_CATEGORIES[k]]_vars

\* C28: a line with the poultry label before the fish label has been read
\* under the poultry category, and the category is the fish label, which
\* comes first in the list.
C28_Witness ==
    /\ lines = <<"Poultry Products", "Poultry Products / FISH PRODUCTS">>
    /\ i = 2
    /\ current_category = "FISH PRODUCTS"

(***************************************************************************)
(* Properties of the worker's callback (under SpecWorker)                   *)
(***************************************************************************)

\* The places in the log where the message m is acknowledged, and where a
\* payload is published for it.
AcksOf(m) ==
    {j \in 1..Len(worker.log) :
        worker.log[j].op = "ack" /\ worker.log[j].msg = m}

PublishesOf(m) ==
    {j \in 1..Len(worker.log) :
        worker.log[j].op = "publish" /\ worker.log[j].msg = m}

\* The callback has returned for the message m.
Handled(m) == m < worker.k \/ (m = worker.k /\ worker.pc = "idle")

\* C31: every message handed to the callback is acknowledged once at most
\* while the callback runs and exactly once when it has returned, whatever
\* path it took; one payload at most is published for it, before the
\* acknowledgement; and a message that is not JSON, or that has neither a
\* file_content nor a target_url, has no payload published.
C31_AckOncePublishBefore ==
    \A m \in 1..worker.k :
        /\ Cardinality(AcksOf(m)) <= 1
        /\ Handled(m) => Cardinality(AcksOf(m)) = 1
        /\ Cardinality(PublishesOf(m)) <= 1
        /\ \A p \in PublishesOf(m) : \A a \in AcksOf(m) : p < a
        /\ (\/ ~json_loads(worker.queue[m]).ok
            \/ Branch(json_loads(worker.queue[m]).value) = "invalid")
              => PublishesOf(m) = {}

\* C31: a manual upload was published and then acknowledged, and a message
\* that is not JSON was acknowledged after it with nothing published.
C31_Witness ==
    /\ Len(worker.queue) = 2
    /\ worker.queue[2].kind = "text"
    /\ worker.k = 2
    /\ worker.pc = "idle"
    /\ Len(worker.log) = 3
    /\ worker.log[1].op = "publish" /\ worker.log[1].msg = 1
    /\ worker.log[1].mode = "manual"
    /\ worker.log[2] = Ack(1)
    /\ worker.log[3] = Ack(2)

=============================================================================
